---- MODULE Spec2Model ----
(***************************************************************************)
(* Model of the MagisAI Training Hub web application (App.jsx):            *)
(*   - the CSV importer (parseCSV, csvToJson, handleFileUpload),           *)
(*   - the data review session (DataReviewSection),                        *)
(*   - the RAFT preparation loop (handlePrepareRaft),                      *)
(*   - the correction loop over flagged results (MetricsSection).          *)
(*                                                                         *)
(* A text is a sequence of atoms.  An atom is either one of the characters *)
(* the code inspects (comma, double quote, newline, carriage return,       *)
(* blank) or an opaque piece of text without any of them.  The empty       *)
(* string of the code is the empty sequence.                               *)
(***************************************************************************)
EXTENDS Integers, Sequences, FiniteSets, TLC

VARIABLES
  csvText,          \* content of the .csv file being uploaded
  trainingData,     \* App state: the record store
  currentIndex,     \* DataReviewSection state: cursor
  editMode,         \* DataReviewSection state
  editedAnswer,     \* DataReviewSection state: text in the edit box
  acceptAllDialog,  \* handleAcceptAll awaiting showConfirm: << closure's trainingData >>, else << >>
  importedData,     \* history: the store as written by the last upload
  lastOp,           \* history: the handler that ran last
  evalResults,      \* App state: evaluation results
  flaggedIndex,     \* MetricsSection state: cursor into flaggedItems
  editedCorrection, \* MetricsSection state: text in the correction box
  raftConfig,       \* App state: [numDistractors]
  weaviateReady,    \* weaviateConfig.url && weaviateStatus.connected
  raftPc,           \* handlePrepareRaft: "idle" | "running" | "done"
  raftItems,        \* handlePrepareRaft: acceptedItems captured by the run
  raftI,            \* handlePrepareRaft: loop index i (0-based)
  prepared,         \* handlePrepareRaft: local array of samples
  raftPreparedData, \* TrainingSection state: published samples
  snapshotFile,     \* handleSave: content of the downloaded progress file, << >> before any save
  savedFrom,        \* history: << store, cursor, editMode >> of the render that was saved
  correctionsFile,  \* exportCorrections: what the last call produced
  judgeText,        \* the judge's reply handed to parseJudgeOutput
  judgeParsed,      \* what parseJudgeOutput returned for it, << >> before the call
  modelResponses,   \* App state: loaded model responses
  evalProgress,     \* App state: [current, total, status]
  evalConfig,       \* App state: [scoreThreshold (tenths), judgeConfigured]
  evalPc,           \* runEvaluation: "idle" | "calling" | "delay"
  evalClosure,      \* runEvaluation: [modelResponses, scoreThreshold] of the render it was called in
  evalI,            \* runEvaluation: loop index i (0-based)
  runResults,       \* runEvaluation: local array results
  judgeInFlight,    \* history: judge calls started and not yet settled
  csvTable,         \* history: the table of fields the .csv file was written from, with its line ending
  csvRows,          \* what parseCSV returned for csvText, << >> before the call
  jsonFile,         \* history: the lines/records of the .json/.jsonl file uploaded last
  trainingFile,     \* exportAsJsonl: what the last call produced
  connected,        \* App state: the training endpoint answered the health check
  trainingType,     \* TrainingSection state: 'sft' | 'raft'
  trainRequest,     \* body of the last POST .../run: << [training_data] >>, else << >>
  jobHistory,       \* App state: the jobs, newest first
  jobCalls          \* pending submissions, poll timers and poll requests

vars == << csvText, trainingData, currentIndex, editMode, editedAnswer,
           acceptAllDialog, importedData, lastOp, evalResults, flaggedIndex, editedCorrection,
           raftConfig, weaviateReady, raftPc, raftItems, raftI, prepared,
           raftPreparedData, snapshotFile, savedFrom, correctionsFile, judgeText,
           judgeParsed, modelResponses, evalProgress, evalConfig, evalPc,
           evalClosure, evalI, runResults, judgeInFlight, csvTable, csvRows,
           jsonFile, trainingFile, connected, trainingType, trainRequest,
           jobHistory, jobCalls >>

reviewVars == << trainingData, currentIndex, editMode, editedAnswer,
                acceptAllDialog, importedData >>
corrVars   == << evalResults, flaggedIndex, editedCorrection >>
raftVars   == << raftConfig, weaviateReady, raftPc, raftItems, raftI, prepared,
                 raftPreparedData >>
snapVars   == << snapshotFile, savedFrom >>
judgeVars  == << judgeText, judgeParsed >>
evalVars   == << modelResponses, evalProgress, evalConfig, evalPc, evalClosure,
                 evalI, runResults, judgeInFlight >>
laterVars  == << snapVars, correctionsFile, judgeVars, evalVars >>
jobVars    == << connected, trainingType, trainRequest, jobHistory, jobCalls >>
ioVars     == << csvTable, csvRows, jsonFile, trainingFile, jobVars >>

----------------------------------------------------------------------------
(* Bounds of the model *)

MaxCsvLen == 5       \* atoms in an uploaded CSV text
MaxReviewRecords == 2 \* records in an uploaded JSON file
MaxResults == 3      \* model responses in an evaluated result file
MaxRaftSize == 4     \* records + configured distractors in a RAFT run
MaxJudgeLen == 4     \* atoms in a judge reply handed to the parser
MaxResponses == 2    \* model responses in an evaluation batch
MaxTableCells == 3   \* fields in a table written to a .csv file
MaxAliasColumns == 3 \* columns of a .csv file with named columns
MaxJobs == 2         \* training jobs started

(* Program constants *)

ExtraRequested == 5  \* searchWeaviate is asked for numDistractors + 5
MaxDistractorsUI == 5 \* <input max="5"> of the distractor count

----------------------------------------------------------------------------
(* Generic helpers *)

Min(a, b) == IF a < b THEN a ELSE b
Max(a, b) == IF a > b THEN a ELSE b

RECURSIVE SeqsUpTo(_, _)
SeqsUpTo(S, n) ==
  IF n = 0 THEN { <<>> }
  ELSE LET shorter == SeqsUpTo(S, n - 1)
       IN  shorter \cup { Append(s, x) : s \in { t \in shorter : Len(t) = n - 1 }, x \in S }

\* array.filter(pred) for a predicate on (element, index)
RECURSIVE FilterIdx(_, _, _)
FilterIdx(s, Keep(_, _), k) ==
  IF k > Len(s) THEN <<>>
  ELSE (IF Keep(s[k], k) THEN << s[k] >> ELSE <<>>) \o FilterIdx(s, Keep, k + 1)

\* array.findIndex(pred), 0-based, -1 when absent
RECURSIVE FindIndexFrom(_, _, _)
FindIndexFrom(s, P(_), k) ==
  IF k > Len(s) THEN -1
  ELSE IF P(s[k]) THEN k - 1
  ELSE FindIndexFrom(s, P, k + 1)

\* Injective sequences of length n over the index set 1..m
Arrangements(m, n) ==
  { p \in [1..n -> 1..m] : \A a, b \in 1..n : a # b => p[a] # p[b] }

----------------------------------------------------------------------------
(* CSV importer *)

QUOTE == "\""
COMMA == ","
LF    == "\n"
CR    == "\r"
BLANK == " "

IsSpace(c) == c \in { BLANK, LF, CR }

\* String.prototype.trim
RECURSIVE TrimLeft(_)
TrimLeft(f) ==
  IF f # <<>> /\ IsSpace(Head(f)) THEN TrimLeft(Tail(f)) ELSE f

RECURSIVE TrimRight(_)
TrimRight(f) ==
  IF f # <<>> /\ IsSpace(f[Len(f)]) THEN TrimRight(SubSeq(f, 1, Len(f) - 1)) ELSE f

Trim(f) == TrimRight(TrimLeft(f))

\* Mutant of PushRow: rows without any non-empty field are pushed too
PushRowAlways(rows, row) == Append(rows, row)

\* rows.push(currentRow) only when currentRow.some(f => f)
PushRow(rows, row) ==
  IF \E k \in 1..Len(row) : row[k] # <<>> THEN Append(rows, row) ELSE rows

\* The loop of parseCSV from position i (1-based) with the loop's locals
RECURSIVE ParseFrom(_, _, _, _, _, _)
ParseFrom(text, i, rows, row, field, inQuotes) ==
  IF i > Len(text)
  THEN \* "Don't forget the last field/row"
       IF field # <<>> \/ Len(row) > 0
       THEN PushRow(rows, Append(row, Trim(field)))
       ELSE rows
  ELSE
    LET char == text[i]
        hasNext == i + 1 <= Len(text)
        nextIs(c) == hasNext /\ text[i + 1] = c
    IN
    IF char = QUOTE
    THEN IF inQuotes /\ nextIs(QUOTE)
         THEN ParseFrom(text, i + 2, rows, row, Append(field, QUOTE), inQuotes)
         ELSE ParseFrom(text, i + 1, rows, row, field, ~inQuotes)
    ELSE IF char = COMMA /\ ~inQuotes
    THEN ParseFrom(text, i + 1, rows, Append(row, Trim(field)), <<>>, inQuotes)
    ELSE IF (char = LF \/ (char = CR /\ nextIs(LF))) /\ ~inQuotes
    THEN ParseFrom(text, IF char = CR THEN i + 2 ELSE i + 1,
                   PushRow(rows, Append(row, Trim(field))), <<>>, <<>>, inQuotes)
    ELSE IF char = CR /\ ~inQuotes
    THEN ParseFrom(text, i + 1,
                   PushRow(rows, Append(row, Trim(field))), <<>>, <<>>, inQuotes)
    ELSE ParseFrom(text, i + 1, rows, row, Append(field, char), inQuotes)

parseCSV(csv) == ParseFrom(csv, 1, <<>>, <<>>, <<>>, FALSE)

\* parseCSV called on the content of the file
ParseCsvFile ==
  /\ csvRows = <<>>
  /\ csvRows' = << parseCSV(csvText) >>
  /\ lastOp' = "parseCSV"
  /\ UNCHANGED << jobVars, csvText, csvTable, jsonFile, trainingFile, reviewVars, corrVars, raftVars,
                  laterVars >>

\* A spreadsheet export of a table of fields: every field wrapped in double
\* quotes with its quotes doubled, fields joined by commas, rows by eol
RECURSIVE DoubleQuotes(_)
DoubleQuotes(f) ==
  IF f = <<>> THEN <<>>
  ELSE (IF Head(f) = QUOTE THEN << QUOTE, QUOTE >> ELSE << Head(f) >>) \o DoubleQuotes(Tail(f))

EncodeField(f) == << QUOTE >> \o DoubleQuotes(f) \o << QUOTE >>

RECURSIVE EncodeRow(_)
EncodeRow(row) ==
  IF Len(row) = 0 THEN <<>>
  ELSE IF Len(row) = 1 THEN EncodeField(row[1])
  ELSE EncodeField(Head(row)) \o << COMMA >> \o EncodeRow(Tail(row))

RECURSIVE EncodeTable(_, _)
EncodeTable(table, eol) ==
  IF Len(table) = 0 THEN <<>>
  ELSE IF Len(table) = 1 THEN EncodeRow(table[1])
  ELSE EncodeRow(Head(table)) \o eol \o EncodeTable(Tail(table), eol)

\* h.toLowerCase() on one atom
LowerAtom(c) ==
  CASE c = "Q" -> "q"
    [] c = "A" -> "a"
    [] c = "X" -> "x"
    [] OTHER -> c

\* h.toLowerCase().replace(/"/g, '')
RECURSIVE HeaderName(_)
HeaderName(h) ==
  IF h = <<>> THEN <<>>
  ELSE (IF Head(h) = QUOTE THEN <<>> ELSE << LowerAtom(Head(h)) >>) \o HeaderName(Tail(h))

\* row[name] after  headers.forEach((h, idx) => row[h] = values[idx] || ''):
\* the last header column named `name` decides.  An absent key (undefined)
\* and an empty value are both falsy for the || chains that read the row, and
\* both are the empty text here.
RECURSIVE RowGet(_, _, _, _)
RowGet(headers, values, name, k) ==
  IF k = 0 THEN <<>>
  ELSE IF headers[k] = name
       THEN (IF k <= Len(values) THEN values[k] ELSE <<>>)
       ELSE RowGet(headers, values, name, k - 1)

Truthy(v) == v # <<>>

\* a || b || c || ... || last   over the row's aliases, then the positional value
RECURSIVE FirstTruthy(_, _, _, _, _)
FirstTruthy(headers, values, aliases, k, last) ==
  IF k > Len(aliases) THEN last
  ELSE LET v == RowGet(headers, values, aliases[k], Len(headers))
       IN  IF Truthy(v) THEN v
           ELSE FirstTruthy(headers, values, aliases, k + 1, last)

\* Mutant of QuestionAliases: the short name is looked up first
QuestionAliasesShortFirst == << <<"q">>, <<"question">>, <<"prompt">>, <<"input">> >>

QuestionAliases == << <<"question">>, <<"prompt">>, <<"input">>, <<"q">> >>
AnswerAliases   == << <<"answer">>, <<"response">>, <<"output">>, <<"a">> >>

\* The body of csvToJson's loop for one data row, format 'sharegpt':
\* the sequence of records the row contributes (none or one)
CsvRowRecords(headers, values) ==
  IF Len(values) < 2 THEN <<>>
  ELSE << [ question |-> FirstTruthy(headers, values, QuestionAliases, 1, values[1]),
            answer   |-> FirstTruthy(headers, values, AnswerAliases, 1, values[2]) ] >>

RECURSIVE CsvRowsFrom(_, _, _)
CsvRowsFrom(headers, rows, i) ==
  IF i > Len(rows) THEN <<>>
  ELSE CsvRowRecords(headers, rows[i]) \o CsvRowsFrom(headers, rows, i + 1)

csvToJson(csv) ==
  LET rows == parseCSV(csv)
  IN  IF Len(rows) < 2 THEN <<>>
      ELSE CsvRowsFrom([k \in 1..Len(rows[1]) |-> HeaderName(rows[1][k])], rows, 2)

----------------------------------------------------------------------------
(* Data review session (DataReviewSection) *)

\* `item_${Date.now()}_${index}`: within one upload the index tells ids apart
ItemId(index) == << "item", index >>

\* item._id || ...  and  item._status || ...: the field when the record has
\* one that is not the empty string
HasId(item) == "_id" \in DOMAIN item /\ item._id # <<>>
HasStatus(item) == "_status" \in DOMAIN item /\ item._status # ""

initializeWithStatus(data) ==
  [ k \in 1..Len(data) |->
      [ _id      |-> IF HasId(data[k]) THEN data[k]._id ELSE ItemId(k - 1),
        question |-> data[k].question,
        answer   |-> data[k].answer,
        _status  |-> IF HasStatus(data[k]) THEN data[k]._status ELSE "pending" ] ]

getAnswer(item) == item.answer

\* Texts the reviewer can leave in the edit box
EditTexts == { <<>>, <<"x">>, <<"y">> }

\* Records of an uploaded .json/.jsonl file
UploadItems == [ question : { <<"x">> }, answer : { <<"x">> } ]
UploadFiles == SeqsUpTo(UploadItems, MaxReviewRecords)

\* The value a React state holds after a handler called its setter with
\* these values in this order (plain values, no updater functions): the last
LastSet(calls) == calls[Len(calls)]

\* Mutant of updateCurrentAnswer: a changed answer is to be reviewed again
updateCurrentAnswerResets(data, index, newAnswer) ==
  [ data EXCEPT ![index + 1].answer = newAnswer, ![index + 1]._status = "pending" ]

\* The array updateCurrentAnswer hands to setTrainingData
updateCurrentAnswer(data, index, newAnswer) ==
  [ data EXCEPT ![index + 1].answer = newAnswer ]

HasCurrent == Len(trainingData) > 0 /\ currentIndex < Len(trainingData)

DialogOpen == acceptAllDialog # <<>>

\* reader.onload of handleFileUpload for a .csv file
HandleFileUploadCsv ==
  /\ ~DialogOpen
  /\ trainingData' = initializeWithStatus(csvToJson(csvText))
  /\ importedData' = trainingData'
  /\ currentIndex' = 0
  /\ editMode' = FALSE
  /\ lastOp' = "uploadCsv"
  /\ UNCHANGED << laterVars, ioVars, csvText, editedAnswer, acceptAllDialog, corrVars, raftVars >>

\* A line of a .jsonl file: JSON.parse(line) returns value or throws
ParsedLine(item) == [ ok |-> TRUE, value |-> item ]
InvalidLine == [ ok |-> FALSE, value |-> <<>> ]

\* The records of a .json file as the lines of an equivalent .jsonl file
WholeLines(data) == [ k \in 1..Len(data) |-> ParsedLine(data[k]) ]

\* reader.onload of handleFileUpload for a .json file holding an array
HandleFileUploadJson(data) ==
  /\ ~DialogOpen
  /\ trainingData' = initializeWithStatus(data)
  /\ importedData' = trainingData'
  /\ currentIndex' = 0
  /\ editMode' = FALSE
  /\ jsonFile' = WholeLines(data)
  /\ lastOp' = "uploadJson"
  /\ UNCHANGED << jobVars, laterVars, csvTable, csvRows, trainingFile, csvText, editedAnswer,
                  acceptAllDialog, corrVars, raftVars >>

\* content.trim().split('\n').map(line => JSON.parse(line)) inside the try:
\* one line that throws ends the whole map
JsonlData(lines) ==
  IF \E k \in 1..Len(lines) : ~lines[k].ok
  THEN [ ok |-> FALSE, data |-> <<>> ]
  ELSE [ ok |-> TRUE, data |-> [ k \in 1..Len(lines) |-> lines[k].value ] ]

\* reader.onload of handleFileUpload for a .jsonl file: the catch branch
\* shows the alert and returns before any setter is called
HandleFileUploadJsonl(lines) ==
  /\ ~DialogOpen
  /\ jsonFile' = lines
  /\ LET parsed == JsonlData(lines)
     IN  IF parsed.ok
         THEN /\ trainingData' = initializeWithStatus(parsed.data)
              /\ importedData' = trainingData'
              /\ currentIndex' = 0
              /\ editMode' = FALSE
              /\ lastOp' = "uploadJsonl"
         ELSE /\ lastOp' = "uploadAlert"
              /\ UNCHANGED << trainingData, importedData, currentIndex, editMode >>
  /\ UNCHANGED << jobVars, laterVars, csvTable, csvRows, trainingFile, csvText, editedAnswer,
                  acceptAllDialog, corrVars, raftVars >>

\* Mutant of AdvanceCursor: the cursor moves on from the last record too
AdvanceCursorAlways(index, data) == index + 1

\* setCurrentIndex(i => i + 1) when not on the last record
AdvanceCursor(index, data) ==
  IF index < Len(data) - 1 THEN index + 1 ELSE index

HandleAccept ==
  /\ HasCurrent
  /\ LET saveEdit == IF editMode
                      THEN << updateCurrentAnswer(trainingData, currentIndex, editedAnswer) >>
                      ELSE <<>>
         updatedData == [ trainingData EXCEPT ![currentIndex + 1]._status =
                            IF editMode THEN "edited" ELSE "accepted" ]
     IN  trainingData' = LastSet(saveEdit \o << updatedData >>)
  /\ editMode' = FALSE
  /\ currentIndex' = AdvanceCursor(currentIndex, trainingData)
  /\ lastOp' = "accept"
  /\ UNCHANGED << laterVars, ioVars, csvText, editedAnswer, acceptAllDialog, importedData, corrVars, raftVars >>

\* Mutant of HandleReject: only a pending record can be rejected
HandleRejectPendingOnly ==
  /\ HasCurrent
  /\ trainingData[currentIndex + 1]._status = "pending"
  /\ trainingData' = [ trainingData EXCEPT ![currentIndex + 1]._status = "rejected" ]
  /\ editMode' = FALSE
  /\ currentIndex' = AdvanceCursor(currentIndex, trainingData)
  /\ lastOp' = "reject"
  /\ UNCHANGED << laterVars, ioVars, csvText, editedAnswer, acceptAllDialog, importedData, corrVars, raftVars >>

HandleReject ==
  /\ HasCurrent
  /\ trainingData' = [ trainingData EXCEPT ![currentIndex + 1]._status = "rejected" ]
  /\ editMode' = FALSE
  /\ currentIndex' = AdvanceCursor(currentIndex, trainingData)
  /\ lastOp' = "reject"
  /\ UNCHANGED << laterVars, ioVars, csvText, editedAnswer, acceptAllDialog, importedData, corrVars, raftVars >>

HandleToggleEdit ==
  /\ HasCurrent
  /\ IF editMode
     THEN /\ trainingData' = updateCurrentAnswer(trainingData, currentIndex, editedAnswer)
          /\ editMode' = FALSE
          /\ lastOp' = "saveEdit"
          /\ UNCHANGED editedAnswer
     ELSE /\ editedAnswer' = getAnswer(trainingData[currentIndex + 1])
          /\ editMode' = TRUE
          /\ lastOp' = "enterEdit"
          /\ UNCHANGED trainingData
  /\ UNCHANGED << laterVars, ioVars, csvText, currentIndex, acceptAllDialog, importedData, corrVars, raftVars >>

\* onChange of the answer textarea
TypeAnswer(text) ==
  /\ editMode
  /\ ~DialogOpen
  /\ text # editedAnswer
  /\ editedAnswer' = text
  /\ lastOp' = "type"
  /\ UNCHANGED << laterVars, ioVars, csvText, trainingData, currentIndex, editMode, acceptAllDialog,
                  importedData, corrVars, raftVars >>

\* Previous button / left arrow
NavPrevious ==
  /\ currentIndex > 0
  /\ editMode' = FALSE
  /\ currentIndex' = Max(0, currentIndex - 1)
  /\ lastOp' = "previous"
  /\ UNCHANGED << laterVars, ioVars, csvText, trainingData, editedAnswer, acceptAllDialog, importedData,
                  corrVars, raftVars >>

\* Next button / right arrow
NavNext ==
  /\ currentIndex < Len(trainingData) - 1
  /\ editMode' = FALSE
  /\ currentIndex' = Min(Len(trainingData) - 1, currentIndex + 1)
  /\ lastOp' = "next"
  /\ UNCHANGED << laterVars, ioVars, csvText, trainingData, editedAnswer, acceptAllDialog, importedData,
                  corrVars, raftVars >>

\* handleAcceptAll up to  await showConfirm(...)
HandleAcceptAll ==
  /\ ~DialogOpen
  /\ Len(trainingData) > 0
  /\ \E k \in 1..Len(trainingData) : trainingData[k]._status = "pending"
  /\ acceptAllDialog' = << trainingData >>
  /\ lastOp' = "acceptAllAsk"
  /\ UNCHANGED << laterVars, ioVars, csvText, trainingData, currentIndex, editMode, editedAnswer,
                  importedData, corrVars, raftVars >>

\* handleAcceptAll after the dialog was confirmed: it maps the trainingData
\* of the render in which the handler was called
AcceptAllConfirm ==
  /\ DialogOpen
  /\ trainingData' =
       [ k \in 1..Len(acceptAllDialog[1]) |->
           [ acceptAllDialog[1][k] EXCEPT !._status =
               IF @ = "pending" THEN "accepted" ELSE @ ] ]
  /\ acceptAllDialog' = <<>>
  /\ lastOp' = "acceptAll"
  /\ UNCHANGED << laterVars, ioVars, csvText, currentIndex, editMode, editedAnswer, importedData,
                  corrVars, raftVars >>

AcceptAllCancel ==
  /\ DialogOpen
  /\ acceptAllDialog' = <<>>
  /\ lastOp' = "acceptAllCancel"
  /\ UNCHANGED << laterVars, ioVars, csvText, trainingData, currentIndex, editMode, editedAnswer,
                  importedData, corrVars, raftVars >>

\* Leaving and re-entering the Data Review section remounts the component:
\* its useState values start over, the store (App state) stays
RemountDataReview ==
  /\ ~DialogOpen
  /\ currentIndex # 0 \/ editMode \/ editedAnswer # <<>>
  /\ currentIndex' = 0
  /\ editMode' = FALSE
  /\ editedAnswer' = <<>>
  /\ lastOp' = "remount"
  /\ UNCHANGED << laterVars, ioVars, csvText, trainingData, acceptAllDialog, importedData, corrVars, raftVars >>

\* trainingData.filter(item => item._status === status).length
CountStatus(data, status) ==
  Len(FilterIdx(data, LAMBDA item, k : item._status = status, 1))

\* Mutant of stats: edited records are not counted as reviewed
statsWithoutEdited(data) ==
  [ total    |-> Len(data),
    accepted |-> CountStatus(data, "accepted"),
    edited   |-> CountStatus(data, "edited"),
    rejected |-> CountStatus(data, "rejected"),
    pending  |-> CountStatus(data, "pending"),
    reviewed |-> CountStatus(data, "accepted") + CountStatus(data, "rejected") ]

\* The stats object of a render, stats.reviewed included
stats(data) ==
  [ total    |-> Len(data),
    accepted |-> CountStatus(data, "accepted"),
    edited   |-> CountStatus(data, "edited"),
    rejected |-> CountStatus(data, "rejected"),
    pending  |-> CountStatus(data, "pending"),
    reviewed |-> CountStatus(data, "accepted") + CountStatus(data, "edited")
                   + CountStatus(data, "rejected") ]

\* Width of the progress bar in percent, as the fraction num/den:
\* stats.total ? (stats.reviewed / stats.total) * 100 : 0
ProgressWidth(st) ==
  IF st.total # 0 THEN [ num |-> st.reviewed * 100, den |-> st.total ]
  ELSE [ num |-> 0, den |-> 1 ]

\* Mutant of IsExportable: every record that was not rejected is exported
IsExportableNotRejected(item, k) == item._status # "rejected"

\* item._status === 'accepted' || item._status === 'edited'
IsExportable(item, k) == item._status = "accepted" \/ item._status = "edited"

\* ({ _id, _status, ...rest }) => rest
StripInternal(item) ==
  [ f \in DOMAIN item \ { "_id", "_status" } |-> item[f] ]

\* exportAsJsonl on a non-empty store: the alert, or the lines of the
\* downloaded training_data.jsonl (a line is the record JSON.stringify wrote)
exportAsJsonl(data) ==
  LET kept == FilterIdx(data, IsExportable, 1)
      exportData == [ k \in 1..Len(kept) |-> StripInternal(kept[k]) ]
  IN  IF Len(exportData) = 0
      THEN [ alerted |-> TRUE, downloaded |-> FALSE, lines |-> <<>> ]
      ELSE [ alerted |-> FALSE, downloaded |-> TRUE, lines |-> exportData ]

\* Export button (disabled while the store is empty)
ExportAsJsonl ==
  /\ Len(trainingData) > 0
  /\ trainingFile' = exportAsJsonl(trainingData)
  /\ lastOp' = "exportAsJsonl"
  /\ UNCHANGED << jobVars, csvText, csvTable, csvRows, jsonFile, reviewVars, corrVars, raftVars,
                  laterVars >>

\* JSON.stringify(saveData): the records as rows of values under the keys
\* _id, question, answer, _status, and the cursor
SerializeRecord(item) == << item._id, item.question, item.answer, item._status >>

stringifySaveData(data, index) ==
  [ data |-> [ k \in 1..Len(data) |-> SerializeRecord(data[k]) ], currentIndex |-> index ]

\* Mutant of ParseRecord: the status is not read back
ParseRecordPending(row) ==
  [ _id |-> row[1], question |-> row[2], answer |-> row[3], _status |-> "pending" ]

ParseRecord(row) ==
  [ _id |-> row[1], question |-> row[2], answer |-> row[3], _status |-> row[4] ]

\* JSON.parse(event.target.result), then  saveData.data || []  and
\* saveData.currentIndex || 0
parseSaveData(blob) ==
  [ data |-> [ k \in 1..Len(blob.data) |-> ParseRecord(blob.data[k]) ],
    currentIndex |-> IF blob.currentIndex = 0 THEN 0 ELSE blob.currentIndex ]

\* Save button / Ctrl+S: in edit mode the edit goes to the store, and the
\* file gets the trainingData of the render the handler was created in
HandleSave ==
  /\ Len(trainingData) > 0
  /\ IF editMode /\ HasCurrent
     THEN trainingData' = updateCurrentAnswer(trainingData, currentIndex, editedAnswer)
     ELSE UNCHANGED trainingData
  /\ snapshotFile' = << stringifySaveData(trainingData, currentIndex) >>
  /\ savedFrom' = << trainingData, currentIndex, editMode >>
  /\ lastOp' = "save"
  /\ UNCHANGED << ioVars, csvText, currentIndex, editMode, editedAnswer, acceptAllDialog,
                  importedData, corrVars, raftVars, correctionsFile, judgeVars, evalVars >>

\* reader.onload of handleResumeFileLoad for the progress file saved last
HandleResumeFileLoad ==
  /\ ~DialogOpen
  /\ snapshotFile # <<>>
  /\ LET saveData == parseSaveData(snapshotFile[1])
     IN  /\ trainingData' = saveData.data
         /\ currentIndex' = saveData.currentIndex
  /\ editMode' = FALSE
  /\ lastOp' = "resume"
  /\ UNCHANGED << ioVars, csvText, editedAnswer, acceptAllDialog, importedData, snapVars,
                  corrVars, raftVars, correctionsFile, judgeVars, evalVars >>

----------------------------------------------------------------------------
(* Correction loop over flagged results (MetricsSection) *)

\* evalResults.filter(r => r._status === 'flagged' || r._status === 'corrected'),
\* as the positions of the kept results in evalResults
InQueueWithRejected(r, k) ==
  r._status = "flagged" \/ r._status = "corrected" \/ r._status = "rejected"

InQueue(r, k) == r._status = "flagged" \/ r._status = "corrected"

RECURSIVE QueuePositions(_, _)
QueuePositions(results, k) ==
  IF k > Len(results) THEN <<>>
  ELSE (IF InQueue(results[k], k) THEN << k >> ELSE <<>>) \o QueuePositions(results, k + 1)

flaggedItems(results) ==
  LET pos == QueuePositions(results, 1)
  IN  [ j \in 1..Len(pos) |-> results[pos[j]] ]

\* flaggedItems[flaggedIndex] is defined
HasCurrentFlagged(results, index) ==
  index >= 0 /\ index < Len(flaggedItems(results))

currentFlagged(results, index) == flaggedItems(results)[index + 1]

\* evalResults.map(item => item._id === currentFlagged._id ? change(item) : item)
MapCurrent(results, index, Change(_)) ==
  LET target == currentFlagged(results, index)._id
  IN  [ k \in 1..Len(results) |->
          IF results[k]._id = target THEN Change(results[k]) ELSE results[k] ]

\* useEffect(..., [flaggedIndex, currentFlagged]): after a render in which the
\* cursor or the object under it changed, the correction box is reloaded
CorrectionBox(results, index) ==
  LET cur == currentFlagged(results, index)
  IN  IF cur._correctedAnswer # <<>> THEN cur._correctedAnswer
      ELSE cur.expected_answer

\* Positions whose element MapCurrent replaces by a new object
Rewritten(results, index) ==
  { k \in 1..Len(results) : results[k]._id = currentFlagged(results, index)._id }

\* currentFlagged is the same object before and after: same position of
\* evalResults, and the handler's map did not replace the element there
SameObject(oldResults, oldIndex, newResults, newIndex, rewritten) ==
  /\ HasCurrentFlagged(oldResults, oldIndex)
  /\ LET oldPos == QueuePositions(oldResults, 1)[oldIndex + 1]
         newPos == QueuePositions(newResults, 1)[newIndex + 1]
     IN  oldPos = newPos /\ newPos \notin rewritten

BoxAfterRender(oldResults, oldIndex, newResults, newIndex, rewritten, box) ==
  IF HasCurrentFlagged(newResults, newIndex)
     /\ (newIndex # oldIndex
         \/ ~SameObject(oldResults, oldIndex, newResults, newIndex, rewritten))
  THEN CorrectionBox(newResults, newIndex)
  ELSE box

\* Texts the reviewer can leave in the correction box
CorrectionTexts == { <<>>, << BLANK >>, <<"c">> }

\* Cursor movement of handleAcceptAsIs / handleRejectItem
StepAfterDismiss(index, queueLength) ==
  IF index < queueLength - 1 THEN index + 1
  ELSE IF index > 0 THEN index - 1
  ELSE index

\* Mutant of HandleSaveCorrection: the text is not trimmed before the test
HandleSaveCorrectionUntrimmed ==
  /\ lastOp' = "saveCorrection"
  /\ IF ~HasCurrentFlagged(evalResults, flaggedIndex) \/ editedCorrection = <<>>
     THEN UNCHANGED corrVars
     ELSE LET Change(item) == [ item EXCEPT !._correctedAnswer = editedCorrection,
                                            !._status = "corrected" ]
              updated == MapCurrent(evalResults, flaggedIndex, Change)
              moves == flaggedIndex < Len(flaggedItems(evalResults)) - 1
              newIndex == IF moves THEN flaggedIndex + 1 ELSE flaggedIndex
          IN  /\ evalResults' = updated
              /\ flaggedIndex' = newIndex
              /\ editedCorrection' =
                   BoxAfterRender(evalResults, flaggedIndex, updated, newIndex,
                                  Rewritten(evalResults, flaggedIndex),
                                  IF moves THEN <<>> ELSE editedCorrection)
  /\ UNCHANGED << laterVars, ioVars, csvText, reviewVars, raftVars >>

HandleSaveCorrection ==
  /\ lastOp' = "saveCorrection"
  /\ IF ~HasCurrentFlagged(evalResults, flaggedIndex) \/ Trim(editedCorrection) = <<>>
     THEN UNCHANGED corrVars
     ELSE LET Change(item) == [ item EXCEPT !._correctedAnswer = editedCorrection,
                                            !._status = "corrected" ]
              updated == MapCurrent(evalResults, flaggedIndex, Change)
              moves == flaggedIndex < Len(flaggedItems(evalResults)) - 1
              newIndex == IF moves THEN flaggedIndex + 1 ELSE flaggedIndex
          IN  /\ evalResults' = updated
              /\ flaggedIndex' = newIndex
              /\ editedCorrection' =
                   BoxAfterRender(evalResults, flaggedIndex, updated, newIndex,
                                  Rewritten(evalResults, flaggedIndex),
                                  IF moves THEN <<>> ELSE editedCorrection)
  /\ UNCHANGED << laterVars, ioVars, csvText, reviewVars, raftVars >>

Dismiss(status, op) ==
  /\ lastOp' = op
  /\ IF ~HasCurrentFlagged(evalResults, flaggedIndex)
     THEN UNCHANGED corrVars
     ELSE LET Change(item) == [ item EXCEPT !._status = status ]
              updated == MapCurrent(evalResults, flaggedIndex, Change)
              newIndex == StepAfterDismiss(flaggedIndex, Len(flaggedItems(evalResults)))
          IN  /\ evalResults' = updated
              /\ flaggedIndex' = newIndex
              /\ editedCorrection' =
                   BoxAfterRender(evalResults, flaggedIndex, updated, newIndex,
                                  Rewritten(evalResults, flaggedIndex), editedCorrection)
  /\ UNCHANGED << laterVars, ioVars, csvText, reviewVars, raftVars >>

HandleAcceptAsIs == Dismiss("accepted", "acceptAsIs")

HandleRejectItem == Dismiss("rejected", "rejectItem")

\* Previous button of the flagged review (disabled at index 0)
FlaggedPrevious ==
  /\ flaggedIndex # 0
  /\ flaggedIndex' = Max(0, flaggedIndex - 1)
  /\ editedCorrection' = BoxAfterRender(evalResults, flaggedIndex, evalResults,
                                        flaggedIndex', {}, editedCorrection)
  /\ lastOp' = "flaggedPrevious"
  /\ UNCHANGED << laterVars, ioVars, csvText, evalResults, reviewVars, raftVars >>

\* Next button of the flagged review (disabled on the last item)
FlaggedNext ==
  /\ flaggedIndex < Len(flaggedItems(evalResults)) - 1
  /\ flaggedIndex' = Min(Len(flaggedItems(evalResults)) - 1, flaggedIndex + 1)
  /\ editedCorrection' = BoxAfterRender(evalResults, flaggedIndex, evalResults,
                                        flaggedIndex', {}, editedCorrection)
  /\ lastOp' = "flaggedNext"
  /\ UNCHANGED << laterVars, ioVars, csvText, evalResults, reviewVars, raftVars >>

\* onChange of the correction textarea (rendered while the queue is non-empty)
TypeCorrection(text) ==
  /\ Len(flaggedItems(evalResults)) > 0
  /\ text # editedCorrection
  /\ editedCorrection' = text
  /\ lastOp' = "typeCorrection"
  /\ UNCHANGED << laterVars, ioVars, csvText, evalResults, flaggedIndex, reviewVars, raftVars >>

\* Mutant of IsCorrected: accepted results are exported too
IsCorrectedOrAccepted(r) == r._status = "corrected" \/ r._status = "accepted"

\* r => r._status === 'corrected'
IsCorrected(r) == r._status = "corrected"

\* evalResults.filter(r => r._status === 'corrected')
RECURSIVE CorrectedFrom(_, _)
CorrectedFrom(results, k) ==
  IF k > Len(results) THEN <<>>
  ELSE (IF IsCorrected(results[k]) THEN << results[k] >> ELSE <<>>)
         \o CorrectedFrom(results, k + 1)

\* Mutant of ExportPair: the model's response is exported as the answer
ExportPairModelResponse(item) ==
  [ user |-> item.question, assistant |-> item.model_response ]

\* { messages: [ { role: 'user', ... }, { role: 'assistant', ... } ] }
ExportPair(item) ==
  [ user |-> item.question, assistant |-> item._correctedAnswer ]

\* What exportCorrections does with these results: the alert, or the
\* download of one pair per corrected result
exportCorrections(results) ==
  LET corrected == CorrectedFrom(results, 1)
  IN  IF Len(corrected) = 0
      THEN [ alerted |-> TRUE, downloaded |-> FALSE, pairs |-> <<>> ]
      ELSE [ alerted |-> FALSE, downloaded |-> TRUE,
             pairs |-> [ k \in 1..Len(corrected) |-> ExportPair(corrected[k]) ] ]

\* Export Corrections button
ExportCorrections ==
  /\ correctionsFile' = exportCorrections(evalResults)
  /\ lastOp' = "exportCorrections"
  /\ UNCHANGED << ioVars, csvText, reviewVars, corrVars, raftVars, snapVars, judgeVars, evalVars >>

----------------------------------------------------------------------------
(* RAFT preparation (TrainingSection.handlePrepareRaft) *)

\* A document is [id, content, is_oracle] as in the code, with one history
\* field src: the 1-based position, in the array the document was built
\* from, of the record it was built from (0 for a remote document).

\* `${question}\n\n${answer}`
QaContent(question, answer) == question \o << LF, LF >> \o answer

\* Mutant of acceptedItems: only rejected records are left out
NotRejected(item, k) == item._status # "rejected"

acceptedItemsNotRejected(data) == FilterIdx(data, NotRejected, 1)

\* trainingData.filter(item => item._status === 'accepted' || item._status === 'edited')
IsAccepted(item, k) == item._status = "accepted" \/ item._status = "edited"

acceptedItems(data) == FilterIdx(data, IsAccepted, 1)

generateCotAnswer(oracleDocNum) == [ kind |-> "cite", document |-> oracleDocNum ]

RefusalAnswer == [ kind |-> "refusal", document |-> 0 ]

OracleDocument(item, pos) ==
  [ id |-> << "oracle", item._id >>,
    content |-> QaContent(item.question, item.answer),
    is_oracle |-> TRUE,
    src |-> pos ]

\* Mutant of OtherPositions: the current record is not filtered out
OtherPositionsAll(allItems, index) == 1..Len(allItems)

\* allItems.filter((_, idx) => idx !== currentIndex), as positions of allItems
OtherPositions(allItems, index) ==
  { k \in 1..Len(allItems) : k - 1 # index }

FallbackDocument(item, pos) ==
  [ id |-> << "distractor", item._id >>,
    content |-> QaContent(item.question, item.answer),
    is_oracle |-> FALSE,
    src |-> pos ]

\* createFallbackDistractors: the results it can return.  The random sort
\* leaves the other items in some order; the first min(numDistractors, count)
\* of them are turned into documents.
createFallbackDistractors(allItems, index, numDistractors) ==
  LET others == OtherPositions(allItems, index)
      count == Min(numDistractors, Cardinality(others))
  IN  { [ j \in 1..count |-> FallbackDocument(allItems[pick[j]], pick[j]) ] :
          pick \in { p \in Arrangements(Len(allItems), Max(count, 0)) :
                       \A j \in 1..count : p[j] \in others } }

\* A usable document of a searchWeaviate result, mapped by handlePrepareRaft
RemoteDocument(k) ==
  [ id |-> << "wv", ToString(k) >>,
    content |-> << "passage", ToString(k) >>,
    is_oracle |-> FALSE,
    src |-> 0 ]

\* searchWeaviate(question, config, limit, answer): the results it can return.
\* A failure is caught inside and returned as success = false with no
\* documents; a success carries at most `limit` usable documents.
searchWeaviate(limit) ==
  { [ success |-> FALSE, documents |-> <<>> ] } \cup
  { [ success |-> TRUE, documents |-> [ k \in 1..r |-> RemoteDocument(k) ] ] :
      r \in 0..limit }

\* Mutant of RemoteDistractors: the result is not cut to numDistractors
RemoteDistractorsNoSlice(result, numDistractors) ==
  IF result.success /\ Len(result.documents) > 0 THEN result.documents ELSE <<>>

\* result.documents.slice(0, numDistractors) when the search succeeded with
\* at least one document, else no remote distractors
RemoteDistractors(result, numDistractors) ==
  IF result.success /\ Len(result.documents) > 0
  THEN SubSeq(result.documents, 1, Min(numDistractors, Len(result.documents)))
  ELSE <<>>

\* The distractor lists one loop iteration can end up with: remote part,
\* topped up by the fallback when it is shorter than numDistractors
TopUps(remote, items, index, numDistractors) ==
  IF Len(remote) < numDistractors
  THEN { remote \o fb :
           fb \in createFallbackDistractors(items, index, numDistractors - Len(remote)) }
  ELSE { remote }

\* [...].sort(() => Math.random() - 0.5): some permutation of the array
Shuffles(docs) ==
  { [ j \in 1..Len(docs) |-> docs[p[j]] ] : p \in Arrangements(Len(docs), Len(docs)) }

\* Mutant of OraclePosition: the 0-based index is cited
OraclePositionZeroBased(documents) ==
  LET IsOracleDoc(d) == d.is_oracle IN FindIndexFrom(documents, IsOracleDoc, 1)

\* findIndex(d => d.is_oracle) + 1
IsOracle(d) == d.is_oracle

OraclePosition(documents) == FindIndexFrom(documents, IsOracle, 1) + 1

\* Mutant of RenderContext: documents are numbered from 0
RenderContextZeroBased(documents) ==
  [ j \in 1..Len(documents) |-> [ number |-> j - 1, content |-> documents[j].content ] ]

\* documents.map((doc, idx) => `[Document ${idx + 1}]\n${doc.content}`)
RenderContext(documents) ==
  [ j \in 1..Len(documents) |-> [ number |-> j, content |-> documents[j].content ] ]

\* Mutant of DocumentChoices: the oracle is put in whatever the draw says
DocumentChoicesAlwaysOracle(includeOracle, oracleDoc, distractors) ==
  { [ j \in 1..Len(distractors) + 1 |->
        (<< oracleDoc >> \o distractors)[p[j]] ] :
      p \in Arrangements(Len(distractors) + 1, Len(distractors) + 1) }

\* The documents of a sample: the shuffled oracle and distractors when the
\* oracle is included, the distractors alone when it is not
DocumentChoices(includeOracle, oracleDoc, distractors) ==
  IF includeOracle THEN Shuffles(<< oracleDoc >> \o distractors)
  ELSE { distractors }

\* The sample pushed by one iteration.  context and answer are the parts of
\* the two messages that vary; documents, distractors and remoteUsed keep
\* the iteration's locals (remoteUsed: how many of the distractors came from
\* the remote search).
RaftSample(item, documents, cotAnswer, includeOracle, distractors, remote) ==
  [ _id |-> item._id,
    context |-> RenderContext(documents),
    answer |-> cotAnswer,
    _oracle_included |-> includeOracle,
    documents |-> documents,
    distractors |-> distractors,
    remoteUsed |-> Len(remote) ]

\* Skipping the search (not connected) leaves distractors empty, like a failure
SkippedSearch == [ success |-> FALSE, documents |-> <<>> ]

\* Clicking "Prepare RAFT Data": disabled while preparing or without accepted
\* items.  The model follows one run per visit of the Training section; a
\* further run starts after RemountTraining.
StartPrepareRaft ==
  /\ raftPc = "idle"
  /\ Len(acceptedItems(trainingData)) > 0
  /\ raftItems' = acceptedItems(trainingData)
  /\ raftI' = 0
  /\ prepared' = <<>>
  /\ raftPc' = "running"
  /\ lastOp' = "startPrepare"
  /\ UNCHANGED << laterVars, ioVars, csvText, reviewVars, corrVars, raftConfig, weaviateReady, raftPreparedData >>

\* One iteration of the loop of handlePrepareRaft
PrepareItem ==
  /\ raftPc = "running"
  /\ raftI < Len(raftItems)
  /\ LET item == raftItems[raftI + 1]
         n == raftConfig.numDistractors
     IN  \E result \in (IF weaviateReady THEN searchWeaviate(n + ExtraRequested)
                        ELSE { SkippedSearch }) :
         LET remote == RemoteDistractors(result, n) IN
         \E distractors \in TopUps(remote, raftItems, raftI, n) :
         \E includeOracle \in BOOLEAN :
         \E documents \in DocumentChoices(includeOracle,
                                          OracleDocument(item, raftI + 1), distractors) :
           prepared' = Append(prepared,
             RaftSample(item, documents,
                        IF includeOracle THEN generateCotAnswer(OraclePosition(documents))
                        ELSE RefusalAnswer,
                        includeOracle, distractors, remote))
  /\ raftI' = raftI + 1
  /\ lastOp' = "prepareItem"
  /\ UNCHANGED << laterVars, ioVars, csvText, reviewVars, corrVars, raftConfig, weaviateReady, raftPc,
                  raftItems, raftPreparedData >>

\* After the loop: setRaftPreparedData(prepared); setPreparingRaft(false)
FinishPrepareRaft ==
  /\ raftPc = "running"
  /\ raftI = Len(raftItems)
  /\ raftPreparedData' = prepared
  /\ raftPc' = "done"
  /\ lastOp' = "finishPrepare"
  /\ UNCHANGED << laterVars, ioVars, csvText, reviewVars, corrVars, raftConfig, weaviateReady, raftItems,
                  raftI, prepared >>

\* Leaving and re-entering the Training section after a run remounts the
\* component: raftPreparedData and preparingRaft start over, the finished
\* run's locals are gone
RemountTraining ==
  /\ raftPc = "done"
  /\ raftPc' = "idle"
  /\ raftPreparedData' = <<>>
  /\ raftItems' = <<>>
  /\ raftI' = 0
  /\ prepared' = <<>>
  /\ trainingType' = "raft"
  /\ lastOp' = "remountTraining"
  /\ UNCHANGED << laterVars, csvTable, csvRows, jsonFile, trainingFile, connected, trainRequest,
                  jobHistory, jobCalls, csvText, reviewVars, corrVars, raftConfig, weaviateReady >>

----------------------------------------------------------------------------
(* Training jobs (App.handleStartTraining, App.pollJobStatus) *)

\* `job_${Date.now()}`, and the id the remote service gives the same job
LocalJobId(n) == << "job", n >>

RemoteJobId(n) == << "run", n >>

\* acceptedItems.map(({ _id, _status, ...rest }) => rest)
cleanData(items) ==
  [ k \in 1..Len(items) |-> [ question |-> items[k].question, answer |-> items[k].answer ] ]

\* dataToExport of handleExportForRunPod as written to train.jsonl: the
\* prepared samples for type 'raft', else the accepted records as messages;
\* _id, _status, _raft_prepared and _oracle_included are left out
dataToExport(type, samples, data) ==
  IF type = "raft" /\ Len(samples) > 0
  THEN [ k \in 1..Len(samples) |->
           [ context |-> samples[k].context, cot_answer |-> samples[k].answer ] ]
  ELSE cleanData(acceptedItems(data))

\* The statuses a status request can report
PollStatuses == { "IN_QUEUE", "IN_PROGRESS", "COMPLETED", "FAILED", "CANCELLED" }

IsActive(status) == status = "IN_QUEUE" \/ status = "IN_PROGRESS"

\* handleConnect from the click to the end: the health check answered ok or not
HandleConnect(ok) ==
  /\ connected # ok
  /\ connected' = ok
  /\ lastOp' = "connect"
  /\ UNCHANGED << csvText, csvTable, csvRows, jsonFile, trainingFile, trainingType,
                  trainRequest, jobHistory, jobCalls, reviewVars, corrVars, raftVars, laterVars >>

\* onClick of a training type button
SetTrainingType(type) ==
  /\ type # trainingType
  /\ trainingType' = type
  /\ lastOp' = "setTrainingType"
  /\ UNCHANGED << csvText, csvTable, csvRows, jsonFile, trainingFile, connected,
                  trainRequest, jobHistory, jobCalls, reviewVars, corrVars, raftVars, laterVars >>

\* handleStartTraining from the click to  await fetch(.../run)
HandleStartTraining ==
  /\ connected
  /\ Len(trainingData) > 0
  /\ Len(jobHistory) < MaxJobs
  /\ IF Len(acceptedItems(trainingData)) = 0
     THEN /\ lastOp' = "startTrainingNoData"
          /\ UNCHANGED << trainRequest, jobHistory, jobCalls >>
     ELSE LET jobId == LocalJobId(Len(jobHistory))
          IN  /\ jobHistory' = << [ id |-> jobId, status |-> "IN_QUEUE" ] >> \o jobHistory
              /\ trainRequest' =
                   << [ training_data |-> cleanData(acceptedItems(trainingData)) ] >>
              /\ jobCalls' = jobCalls \cup { [ kind |-> "submit", job |-> jobId ] }
              /\ lastOp' = "startTraining"
  /\ UNCHANGED << csvText, csvTable, csvRows, jsonFile, trainingFile, connected,
                  trainingType, reviewVars, corrVars, raftVars, laterVars >>

\* The submission was answered: with an id the entry takes the remote id and
\* pollJobStatus sets its first timer; without one (data.error, or fetch
\* threw) the error is logged
SubmitReplies(call, hasId) ==
  /\ call \in jobCalls
  /\ call.kind = "submit"
  /\ IF hasId
     THEN LET remoteId == RemoteJobId(call.job[2])
          IN  /\ jobHistory' = [ k \in 1..Len(jobHistory) |->
                                   IF jobHistory[k].id = call.job
                                   THEN [ jobHistory[k] EXCEPT !.id = remoteId ]
                                   ELSE jobHistory[k] ]
              /\ jobCalls' = (jobCalls \ { call }) \cup { [ kind |-> "timer", job |-> remoteId ] }
              /\ lastOp' = "jobSubmitted"
     ELSE /\ jobCalls' = jobCalls \ { call }
          /\ lastOp' = "submitFailed"
          /\ UNCHANGED jobHistory
  /\ UNCHANGED << csvText, csvTable, csvRows, jsonFile, trainingFile, connected,
                  trainingType, trainRequest, reviewVars, corrVars, raftVars, laterVars >>

\* setTimeout(poll, ...) elapsed: poll up to  await fetch(.../status/id)
PollTimerFires(call) ==
  /\ call \in jobCalls
  /\ call.kind = "timer"
  /\ jobCalls' = (jobCalls \ { call }) \cup { [ kind |-> "fetch", job |-> call.job ] }
  /\ lastOp' = "pollSent"
  /\ UNCHANGED << csvText, csvTable, csvRows, jsonFile, trainingFile, connected,
                  trainingType, trainRequest, jobHistory, reviewVars, corrVars, raftVars,
                  laterVars >>

\* The status request was answered: the entry takes the status, and a new
\* timer is set only for IN_QUEUE and IN_PROGRESS
PollReplies(call, status) ==
  /\ call \in jobCalls
  /\ call.kind = "fetch"
  /\ jobHistory' = [ k \in 1..Len(jobHistory) |->
                       IF jobHistory[k].id = call.job
                       THEN [ jobHistory[k] EXCEPT !.status = status ]
                       ELSE jobHistory[k] ]
  /\ jobCalls' = IF IsActive(status)
                 THEN (jobCalls \ { call }) \cup { [ kind |-> "timer", job |-> call.job ] }
                 ELSE jobCalls \ { call }
  /\ lastOp' = "pollReplied"
  /\ UNCHANGED << csvText, csvTable, csvRows, jsonFile, trainingFile, connected,
                  trainingType, trainRequest, reviewVars, corrVars, raftVars, laterVars >>

\* The status request threw: the catch branch logs and sets no timer
PollFails(call) ==
  /\ call \in jobCalls
  /\ call.kind = "fetch"
  /\ jobCalls' = jobCalls \ { call }
  /\ lastOp' = "pollFailed"
  /\ UNCHANGED << csvText, csvTable, csvRows, jsonFile, trainingFile, connected,
                  trainingType, trainRequest, jobHistory, reviewVars, corrVars, raftVars,
                  laterVars >>

----------------------------------------------------------------------------
(* Judge response parser (EvaluateSection.parseJudgeOutput) *)

\* Atoms of a judge reply: the single characters the parser inspects
\* (digits, colon, blank, newline) and opaque pieces: RATING is the six
\* letters of "rating" in any case, WORD a run of letters, PAD fifty
\* characters none of which is a digit, a colon or whitespace.
RATING == "rating"
COLON  == ":"
WORD   == "w"
PAD    == "pad"

\* The character class [1-5]
RatingDigits == { "1", "2", "3", "4", "5" }

\* parseInt of a digit of [1-5]
DigitValue(c) ==
  CASE c = "1" -> 1 [] c = "2" -> 2 [] c = "3" -> 3 [] c = "4" -> 4 [] c = "5" -> 5

\* output.slice(0, 50)
FirstChars == 50

\* Number of characters an atom stands for
Width(c) == IF c = RATING THEN 6 ELSE IF c = PAD THEN FirstChars ELSE IF c = WORD THEN 4 ELSE 1

\* split('\n'): lines[0], and lines.slice(1).join('\n')
RECURSIVE FirstLine(_)
FirstLine(text) ==
  IF text = <<>> \/ Head(text) = LF THEN <<>>
  ELSE << Head(text) >> \o FirstLine(Tail(text))

RECURSIVE RestLines(_)
RestLines(text) ==
  IF text = <<>> THEN <<>>
  ELSE IF Head(text) = LF THEN Tail(text)
  ELSE RestLines(Tail(text))

\* The character class [:\s]
IsSeparator(c) == c = COLON \/ IsSpace(c)

\* First position >= j that does not hold a separator
RECURSIVE SkipSeparators(_, _)
SkipSeparators(text, j) ==
  IF j <= Len(text) /\ IsSeparator(text[j]) THEN SkipSeparators(text, j + 1) ELSE j

\* /[Rr]ating[:\s]+([1-5])/i matches at position i
RatingMatchAt(text, i) ==
  /\ text[i] = RATING
  /\ i + 1 <= Len(text)
  /\ IsSeparator(text[i + 1])
  /\ SkipSeparators(text, i + 1) <= Len(text)
  /\ text[SkipSeparators(text, i + 1)] \in RatingDigits

\* output.match(...): position of the leftmost match from i on, 0 if none
RECURSIVE FindRating(_, _)
FindRating(text, i) ==
  IF i > Len(text) THEN 0
  ELSE IF RatingMatchAt(text, i) THEN i
  ELSE FindRating(text, i + 1)

\* Mutant of FirstDigitWithin: the whole text is searched
RECURSIVE FirstDigitAnywhere(_, _, _)
FirstDigitAnywhere(text, k, offset) ==
  IF k > Len(text) THEN 0
  ELSE IF text[k] \in RatingDigits THEN k
  ELSE FirstDigitAnywhere(text, k + 1, offset + Width(text[k]))

\* output.slice(0, 50).match(/[1-5]/): position of the first digit of [1-5]
\* that starts before character offset 50, 0 if none
RECURSIVE FirstDigitWithin(_, _, _)
FirstDigitWithin(text, k, offset) ==
  IF k > Len(text) \/ offset >= FirstChars THEN 0
  ELSE IF text[k] \in RatingDigits THEN k
  ELSE FirstDigitWithin(text, k + 1, offset + Width(text[k]))

parseJudgeOutput(output) ==
  LET firstLine == Trim(FirstLine(Trim(output)))
      ratingMatch == FindRating(output, 1)
      numMatch == FirstDigitWithin(output, 1, 0)
  IN  IF Len(firstLine) = 1 /\ firstLine[1] \in RatingDigits
      THEN [ score |-> DigitValue(firstLine[1]),
             explanation |-> Trim(RestLines(Trim(output))) ]
      ELSE IF ratingMatch # 0
      THEN LET digitAt == SkipSeparators(output, ratingMatch + 1)
           IN  [ score |-> DigitValue(output[digitAt]),
                 explanation |-> Trim(SubSeq(output, digitAt + 1, Len(output))) ]
      ELSE IF numMatch # 0
      THEN [ score |-> DigitValue(output[numMatch]), explanation |-> output ]
      ELSE [ score |-> 3, explanation |-> output ]

\* parseJudgeOutput applied to the reply at hand
ParseJudge ==
  /\ judgeParsed = <<>>
  /\ judgeParsed' = << parseJudgeOutput(judgeText) >>
  /\ lastOp' = "parseJudgeOutput"
  /\ UNCHANGED << ioVars, csvText, reviewVars, corrVars, raftVars, snapVars, correctionsFile,
                  judgeText, evalVars >>

----------------------------------------------------------------------------
(* Evaluation batch (EvaluateSection) *)

\* Scores and thresholds are fractions of 1; the model holds them in
\* hundredths, so 0.7 is 70 and (score - 1) / 4 is 25 * (score - 1).
DefaultThreshold == 70

\* A loaded response after "Normalize response format"
LoadedResponse(id) ==
  [ _id |-> id, question |-> <<"q">>, expected_answer |-> <<"e">>,
    model_response |-> <<"m">>, _status |-> "pending" ]

\* `resp_${i}`, and an _id / id the file itself carries
ResponseId(i) == << "resp", i >>

FileId == << "file", 0 >>

\* Files of responses: for each item, whether it carries its own id
ResponseFiles(n) ==
  UNION { [1..m -> BOOLEAN] : m \in 1..n }

normalizeResponses(file) ==
  [ k \in 1..Len(file) |->
      LoadedResponse(IF file[k] THEN FileId ELSE ResponseId(k - 1)) ]

\* const normalizedScore = (score - 1) / 4
NormalizedScore(score) == 25 * (score - 1)

\* Mutant of FlagStatus: a score equal to the threshold is flagged too
FlagStatusAtMost(normalizedScore, scoreThreshold) ==
  IF normalizedScore <= scoreThreshold THEN "flagged" ELSE "passed"

\* normalizedScore < evalConfig.scoreThreshold ? 'flagged' : 'passed'
FlagStatus(normalizedScore, scoreThreshold) ==
  IF normalizedScore < scoreThreshold THEN "flagged" ELSE "passed"

\* results.push({...item, ...}) of the try branch; an absent
\* _correctedAnswer is the empty text
JudgedResult(item, score, explanation, scoreThreshold) ==
  [ _id |-> item._id, question |-> item.question,
    expected_answer |-> item.expected_answer, model_response |-> item.model_response,
    _correctedAnswer |-> <<>>,
    _evalScore |-> NormalizedScore(score),
    _rawScore |-> score,
    _evalExplanation |-> explanation,
    _status |-> FlagStatus(NormalizedScore(score), scoreThreshold) ]

\* `Error: ${err.message}`
ErrorExplanation(message) == << "Error: " >> \o message

\* results.push({...item, ...}) of the catch branch
FailedResult(item, message) ==
  [ _id |-> item._id, question |-> item.question,
    expected_answer |-> item.expected_answer, model_response |-> item.model_response,
    _correctedAnswer |-> <<>>,
    _evalScore |-> 0,
    _rawScore |-> 1,
    _evalExplanation |-> ErrorExplanation(message),
    _status |-> "error" ]

\* reader.onload of handleLoadResponses
HandleLoadResponses(file) ==
  /\ modelResponses' = normalizeResponses(file)
  /\ evalResults' = <<>>
  /\ lastOp' = "loadResponses"
  /\ UNCHANGED << ioVars, csvText, reviewVars, flaggedIndex, editedCorrection, raftVars, snapVars,
                  correctionsFile, judgeVars, evalProgress, evalConfig, evalPc,
                  evalClosure, evalI, runResults, judgeInFlight >>

\* onChange of the threshold input: parseFloat(e.target.value) || 0.7
SetScoreThreshold(typed) ==
  /\ LET value == IF typed = 0 THEN DefaultThreshold ELSE typed
     IN  /\ value # evalConfig.scoreThreshold
         /\ evalConfig' = [ evalConfig EXCEPT !.scoreThreshold = value ]
  /\ lastOp' = "setThreshold"
  /\ UNCHANGED << ioVars, csvText, reviewVars, corrVars, raftVars, snapVars, correctionsFile,
                  judgeVars, modelResponses, evalProgress, evalPc, evalClosure, evalI,
                  runResults, judgeInFlight >>

\* onChange of the judge endpoint / API key inputs
SetJudgeConfig(configured) ==
  /\ configured # evalConfig.judgeConfigured
  /\ evalConfig' = [ evalConfig EXCEPT !.judgeConfigured = configured ]
  /\ lastOp' = "setJudgeConfig"
  /\ UNCHANGED << ioVars, csvText, reviewVars, corrVars, raftVars, snapVars, correctionsFile,
                  judgeVars, modelResponses, evalProgress, evalPc, evalClosure, evalI,
                  runResults, judgeInFlight >>

\* runEvaluation from the click (the button is disabled without responses
\* and while evalProgress.status is 'running') to the first  await fetch(...)
RunEvaluation ==
  /\ Len(modelResponses) > 0
  /\ evalProgress.status # "running"
  /\ IF ~evalConfig.judgeConfigured
     THEN /\ lastOp' = "runEvaluationAlert"
          /\ UNCHANGED << evalProgress, evalPc, evalClosure, evalI, runResults, judgeInFlight >>
     ELSE /\ lastOp' = "runEvaluation"
          /\ evalClosure' = [ modelResponses |-> modelResponses,
                              scoreThreshold |-> evalConfig.scoreThreshold ]
          /\ runResults' = <<>>
          /\ evalI' = 0
          /\ evalProgress' =
               LastSet(<< [ current |-> 0, total |-> Len(modelResponses), status |-> "running" ],
                          [ current |-> 1, total |-> Len(modelResponses), status |-> "running" ] >>)
          /\ evalPc' = "calling"
          /\ judgeInFlight' = judgeInFlight + 1
  /\ UNCHANGED << ioVars, csvText, reviewVars, corrVars, raftVars, snapVars, correctionsFile,
                  judgeVars, modelResponses, evalConfig >>

\* Mutant of JudgeReplies: the result is put in front of the array
JudgeRepliesUnshift(judgeOutput) ==
  /\ evalPc = "calling"
  /\ LET item == evalClosure.modelResponses[evalI + 1]
         parsed == parseJudgeOutput(judgeOutput)
     IN  runResults' = << JudgedResult(item, parsed.score, parsed.explanation,
                                       evalClosure.scoreThreshold) >> \o runResults
  /\ judgeText' = judgeOutput
  /\ judgeInFlight' = judgeInFlight - 1
  /\ evalPc' = "delay"
  /\ lastOp' = "judgeReplied"
  /\ UNCHANGED << ioVars, csvText, reviewVars, corrVars, raftVars, snapVars, correctionsFile,
                  judgeParsed, modelResponses, evalProgress, evalConfig, evalClosure, evalI >>

\* The judge call of iteration i returned this text: parse, score, push,
\* then wait out the delay
JudgeReplies(judgeOutput) ==
  /\ evalPc = "calling"
  /\ LET item == evalClosure.modelResponses[evalI + 1]
         parsed == parseJudgeOutput(judgeOutput)
     IN  runResults' = Append(runResults,
                         JudgedResult(item, parsed.score, parsed.explanation,
                                      evalClosure.scoreThreshold))
  /\ judgeText' = judgeOutput
  /\ judgeInFlight' = judgeInFlight - 1
  /\ evalPc' = "delay"
  /\ lastOp' = "judgeReplied"
  /\ UNCHANGED << ioVars, csvText, reviewVars, corrVars, raftVars, snapVars, correctionsFile,
                  judgeParsed, modelResponses, evalProgress, evalConfig, evalClosure, evalI >>

\* Mutant of JudgeFails: the failure ends the batch with what it has so far
JudgeFailsAborts(message) ==
  /\ evalPc = "calling"
  /\ evalResults' = runResults
  /\ runResults' = <<>>
  /\ evalProgress' = [ evalProgress EXCEPT !.status = "complete" ]
  /\ judgeInFlight' = judgeInFlight - 1
  /\ evalPc' = "idle"
  /\ evalI' = 0
  /\ lastOp' = "evaluationComplete"
  /\ UNCHANGED << ioVars, csvText, reviewVars, flaggedIndex, editedCorrection, raftVars, snapVars,
                  correctionsFile, judgeVars, modelResponses, evalConfig, evalClosure >>

\* The judge call of iteration i threw (network, timeout, unreadable body)
JudgeFails(message) ==
  /\ evalPc = "calling"
  /\ runResults' = Append(runResults,
                     FailedResult(evalClosure.modelResponses[evalI + 1], message))
  /\ judgeInFlight' = judgeInFlight - 1
  /\ evalPc' = "delay"
  /\ lastOp' = "judgeFailed"
  /\ UNCHANGED << ioVars, csvText, reviewVars, corrVars, raftVars, snapVars, correctionsFile,
                  judgeVars, modelResponses, evalProgress, evalConfig, evalClosure, evalI >>

\* After the delay: the next iteration up to its  await fetch(...), or the
\* end of the loop and the publication of the results
DelayElapsed ==
  /\ evalPc = "delay"
  /\ LET total == Len(evalClosure.modelResponses)
     IN  IF evalI + 1 < total
         THEN /\ evalI' = evalI + 1
              /\ evalProgress' = [ current |-> evalI + 2, total |-> total, status |-> "running" ]
              /\ evalPc' = "calling"
              /\ judgeInFlight' = judgeInFlight + 1
              /\ lastOp' = "nextResponse"
              /\ UNCHANGED << evalResults, runResults >>
         ELSE /\ evalResults' = runResults
              /\ evalProgress' = [ current |-> total, total |-> total, status |-> "complete" ]
              /\ evalPc' = "idle"
              /\ evalI' = 0
              /\ runResults' = <<>>
              /\ lastOp' = "evaluationComplete"
              /\ UNCHANGED judgeInFlight
  /\ UNCHANGED << ioVars, csvText, reviewVars, flaggedIndex, editedCorrection, raftVars, snapVars,
                  correctionsFile, judgeVars, modelResponses, evalConfig, evalClosure >>

----------------------------------------------------------------------------
(* Initial states and specifications *)

ReviewStart ==
  /\ trainingData = <<>>
  /\ currentIndex = 0
  /\ editMode = FALSE
  /\ editedAnswer = <<>>
  /\ acceptAllDialog = <<>>
  /\ importedData = <<>>

CorrStart ==
  /\ evalResults = <<>>
  /\ flaggedIndex = 0
  /\ editedCorrection = <<>>

RaftStart ==
  /\ raftConfig = [ numDistractors |-> 3 ]
  /\ weaviateReady = FALSE
  /\ raftPc = "idle"
  /\ raftItems = <<>>
  /\ raftI = 0
  /\ prepared = <<>>
  /\ raftPreparedData = <<>>

SnapStart ==
  /\ snapshotFile = <<>>
  /\ savedFrom = <<>>

ExportStart ==
  correctionsFile = [ alerted |-> FALSE, downloaded |-> FALSE, pairs |-> <<>> ]

JudgeStart ==
  /\ judgeText = <<>>
  /\ judgeParsed = <<>>

EvalStart ==
  /\ modelResponses = <<>>
  /\ evalProgress = [ current |-> 0, total |-> 0, status |-> "" ]
  /\ evalConfig = [ scoreThreshold |-> DefaultThreshold, judgeConfigured |-> FALSE ]
  /\ evalPc = "idle"
  /\ evalClosure = [ modelResponses |-> <<>>, scoreThreshold |-> DefaultThreshold ]
  /\ evalI = 0
  /\ runResults = <<>>
  /\ judgeInFlight = 0

\* The evaluation state once a run over these results' responses completed
EvalAfterRun ==
  /\ modelResponses = [ k \in 1..Len(evalResults) |-> LoadedResponse(evalResults[k]._id) ]
  /\ evalProgress = [ current |-> Len(evalResults), total |-> Len(evalResults),
                      status |-> "complete" ]
  /\ evalConfig = [ scoreThreshold |-> DefaultThreshold, judgeConfigured |-> TRUE ]
  /\ evalPc = "idle"
  /\ evalClosure = [ modelResponses |-> modelResponses, scoreThreshold |-> DefaultThreshold ]
  /\ evalI = 0
  /\ runResults = <<>>
  /\ judgeInFlight = 0

JobStart ==
  /\ connected = FALSE
  /\ trainingType = "raft"
  /\ trainRequest = <<>>
  /\ jobHistory = <<>>
  /\ jobCalls = {}

IoStart ==
  /\ csvTable = [ rows |-> <<>>, eol |-> << LF >> ]
  /\ csvRows = <<>>
  /\ jsonFile = <<>>
  /\ trainingFile = [ alerted |-> FALSE, downloaded |-> FALSE, lines |-> <<>> ]

LaterStart ==
  /\ SnapStart
  /\ ExportStart
  /\ JudgeStart
  /\ EvalStart

\* The data review session, from the freshly started application
Init ==
  /\ csvText = <<>>
  /\ lastOp = "init"
  /\ JobStart
  /\ IoStart
  /\ ReviewStart
  /\ CorrStart
  /\ RaftStart
  /\ LaterStart

Next ==
  \/ \E data \in UploadFiles : HandleFileUploadJson(data)
  \/ HandleAccept
  \/ HandleReject
  \/ HandleToggleEdit
  \/ \E text \in EditTexts : TypeAnswer(text)
  \/ NavPrevious
  \/ NavNext
  \/ HandleAcceptAll
  \/ AcceptAllConfirm
  \/ AcceptAllCancel
  \/ RemountDataReview

Spec == Init /\ [][Next]_vars

\* Saving and resuming a review session: the Data Review section holds a
\* store in any state a review leaves it in
SnapItems == [ question : { <<"x">> }, answer : { <<"x">>, <<"y">> } ]

SnapStores ==
  { [ k \in 1..Len(data) |-> [ initializeWithStatus(data)[k] EXCEPT !._status = st[k] ] ] :
      data \in SeqsUpTo(SnapItems, MaxReviewRecords),
      st \in [1..MaxReviewRecords -> { "pending", "accepted", "edited", "rejected" }] }

InitSnap ==
  /\ csvText = <<>>
  /\ lastOp = "init"
  /\ JobStart
  /\ IoStart
  /\ trainingData \in SnapStores
  /\ importedData = trainingData
  /\ currentIndex = 0
  /\ editMode = FALSE
  /\ editedAnswer = <<>>
  /\ acceptAllDialog = <<>>
  /\ CorrStart
  /\ RaftStart
  /\ LaterStart

NextSnap ==
  \/ \E data \in UploadFiles : HandleFileUploadJson(data)
  \/ HandleToggleEdit
  \/ NavPrevious
  \/ NavNext
  \/ HandleSave
  \/ HandleResumeFileLoad

SpecSnap == InitSnap /\ [][NextSnap]_vars

\* Saving during an edit, from the freshly started application
NextSaveEdit ==
  \/ \E data \in UploadFiles : HandleFileUploadJson(data)
  \/ HandleToggleEdit
  \/ \E text \in EditTexts : TypeAnswer(text)
  \/ NavNext
  \/ HandleSave
  \/ HandleResumeFileLoad

SpecSaveEdit == Init /\ [][NextSaveEdit]_vars

\* A whole review session: loads, saves, restores and every review action,
\* over an empty file, a file of one record and a file of two records
SessionItem == [ question |-> <<"x">>, answer |-> <<"x">> ]

SessionFiles == { << >>, << SessionItem >>, << SessionItem, SessionItem >> }

NextSession ==
  \/ \E data \in SessionFiles : HandleFileUploadJson(data)
  \/ HandleSave
  \/ HandleResumeFileLoad
  \/ HandleAccept
  \/ HandleReject
  \/ HandleToggleEdit
  \/ NavPrevious
  \/ NavNext
  \/ HandleAcceptAll
  \/ AcceptAllConfirm
  \/ AcceptAllCancel

SpecSession == Init /\ [][NextSession]_vars

\* Training: the store in any state a review leaves it in, one distractor
\* per sample, no remote search; samples are prepared and jobs are started
JobCalls ==
  { [ kind |-> kind, job |-> id ] :
      kind \in { "submit", "timer", "fetch" },
      id \in { LocalJobId(n) : n \in 0..MaxJobs } \cup { RemoteJobId(n) : n \in 0..MaxJobs } }

InitTrain ==
  /\ csvText = <<>>
  /\ lastOp = "init"
  /\ JobStart
  /\ IoStart
  /\ CorrStart
  /\ currentIndex = 0
  /\ editMode = FALSE
  /\ editedAnswer = <<>>
  /\ acceptAllDialog = <<>>
  /\ raftConfig = [ numDistractors |-> 1 ]
  /\ trainingData \in { data \in SnapStores :
                          \A k \in 1..Len(data) : data[k].answer = data[k].question }
  /\ importedData = trainingData
  /\ weaviateReady = FALSE
  /\ raftPc = "idle"
  /\ raftItems = <<>>
  /\ raftI = 0
  /\ prepared = <<>>
  /\ raftPreparedData = <<>>
  /\ LaterStart

NextTrain ==
  \/ StartPrepareRaft
  \/ PrepareItem
  \/ FinishPrepareRaft
  \/ \E ok \in BOOLEAN : HandleConnect(ok)
  \/ \E type \in { "sft", "raft" } : SetTrainingType(type)
  \/ HandleStartTraining
  \/ \E call \in JobCalls, hasId \in BOOLEAN : SubmitReplies(call, hasId)
  \/ \E call \in JobCalls : PollTimerFires(call)
  \/ \E call \in JobCalls, status \in PollStatuses : PollReplies(call, status)
  \/ \E call \in JobCalls : PollFails(call)

SpecTrain == InitTrain /\ [][NextTrain]_vars

\* The training-data export, from a store in any state a review leaves it in
NextTrainExport == ExportAsJsonl

SpecTrainExport == InitSnap /\ [][NextTrainExport]_vars

\* The CSV import: any CSV text within the bounds is uploaded
CsvAtoms == { "q", "a", "x", COMMA, QUOTE, LF, BLANK }

CsvTexts == SeqsUpTo(CsvAtoms, MaxCsvLen)

InitCsv ==
  /\ csvText \in CsvTexts
  /\ lastOp = "init"
  /\ JobStart
  /\ IoStart
  /\ ReviewStart
  /\ CorrStart
  /\ RaftStart
  /\ LaterStart

NextCsv == HandleFileUploadCsv

SpecCsv == InitCsv /\ [][NextCsv]_vars

\* The CSV parser on spreadsheet exports: any table of these fields, with
\* either line ending
CsvFields ==
  { <<>>, << "x" >>, << COMMA >>, << QUOTE >>, << LF >>, << "x", COMMA, "x" >>,
    << BLANK, "x" >>, << "x", QUOTE, LF >> }

RECURSIVE TablesUpTo(_)
TablesUpTo(n) ==
  { <<>> } \cup
  UNION { { << row >> \o t : row \in [1..k -> CsvFields], t \in TablesUpTo(n - k) } :
          k \in 1..n }

EndOfLines == { << LF >>, << CR, LF >> }

InitCsvTable ==
  /\ csvTable \in [ rows : TablesUpTo(MaxTableCells) \ { <<>> }, eol : EndOfLines ]
  /\ csvText = EncodeTable(csvTable.rows, csvTable.eol)
  /\ csvRows = <<>>
  /\ jsonFile = <<>>
  /\ trainingFile = [ alerted |-> FALSE, downloaded |-> FALSE, lines |-> <<>> ]
  /\ lastOp = "init"
  /\ JobStart
  /\ ReviewStart
  /\ CorrStart
  /\ RaftStart
  /\ LaterStart

NextCsvTable == ParseCsvFile

SpecCsvTable == InitCsvTable /\ [][NextCsvTable]_vars

\* The column mapping: a .csv file of a header row and one data row, the
\* headers among the aliases and other names, every cell filled or empty
AliasHeaders ==
  { << "question" >>, << "prompt" >>, << "Q" >>, << "answer" >>, << "a" >>, << "x" >> }

\* The text of a filled cell names its column
CellText(k) == << ToString(k) >>

AliasTables(n) ==
  { << headers, [ k \in 1..n |-> IF filled[k] THEN CellText(k) ELSE <<>> ] >> :
      headers \in [1..n -> AliasHeaders], filled \in [1..n -> BOOLEAN] }

InitCsvAlias ==
  /\ \E n \in 2..MaxAliasColumns : csvTable \in [ rows : AliasTables(n), eol : { << LF >> } ]
  /\ csvText = EncodeTable(csvTable.rows, csvTable.eol)
  /\ csvRows = <<>>
  /\ jsonFile = <<>>
  /\ trainingFile = [ alerted |-> FALSE, downloaded |-> FALSE, lines |-> <<>> ]
  /\ lastOp = "init"
  /\ JobStart
  /\ ReviewStart
  /\ CorrStart
  /\ RaftStart
  /\ LaterStart

NextCsvAlias == HandleFileUploadCsv

SpecCsvAlias == InitCsvAlias /\ [][NextCsvAlias]_vars

\* The correction loop: the Metrics section is opened on the results of an
\* evaluation run.  A result's _id is the one of the loaded response, which
\* is the file's own _id/id when it has one and `resp_${i}` otherwise.  The
\* loop treats results with status error as it treats passed ones (neither
\* is queued), so the sets it starts from hold passed and flagged results.
EvaluatedResult(id, status) ==
  IF status = "error" THEN FailedResult(LoadedResponse(id), <<"timeout">>)
  ELSE JudgedResult(LoadedResponse(id), IF status = "flagged" THEN 2 ELSE 5, <<"w">>,
                    DefaultThreshold)

EvaluatedSets ==
  UNION { { [ k \in 1..n |-> EvaluatedResult(
                               IF own[k] THEN FileId ELSE ResponseId(k - 1), st[k]) ] :
              own \in [1..n -> BOOLEAN], st \in [1..n -> { "passed", "flagged" }] } :
          n \in 0..MaxResults }

InitCorr ==
  /\ csvText = <<>>
  /\ lastOp = "init"
  /\ JobStart
  /\ IoStart
  /\ ReviewStart
  /\ RaftStart
  /\ SnapStart
  /\ ExportStart
  /\ JudgeStart
  /\ evalResults \in EvaluatedSets
  /\ IF Len(evalResults) = 0 THEN EvalStart ELSE EvalAfterRun
  /\ flaggedIndex = 0
  /\ editedCorrection = IF HasCurrentFlagged(evalResults, 0)
                        THEN CorrectionBox(evalResults, 0) ELSE <<>>

NextCorr ==
  \/ HandleSaveCorrection
  \/ HandleAcceptAsIs
  \/ HandleRejectItem
  \/ FlaggedPrevious
  \/ FlaggedNext
  \/ \E text \in CorrectionTexts : TypeCorrection(text)

SpecCorr == InitCorr /\ [][NextCorr]_vars

\* The corrections export: the Metrics section holds results in any of the
\* statuses the evaluation and the correction loop give them
ExportStatuses == { "passed", "flagged", "error", "corrected", "accepted", "rejected" }

CorrectedAnswers == { <<"c">>, <<"d">> }

ExportableResult(id, status, text) ==
  [ EvaluatedResult(id, IF status \in { "passed", "error" } THEN status ELSE "flagged")
      EXCEPT !._status = status,
             !._correctedAnswer = IF status = "corrected" THEN text ELSE <<>> ]

ExportableSets ==
  UNION { { [ k \in 1..n |-> ExportableResult(ResponseId(k - 1), st[k], tx[k]) ] :
              st \in [1..n -> ExportStatuses], tx \in [1..n -> CorrectedAnswers] } :
          n \in 0..MaxResults }

InitExport ==
  /\ csvText = <<>>
  /\ lastOp = "init"
  /\ JobStart
  /\ IoStart
  /\ ReviewStart
  /\ RaftStart
  /\ SnapStart
  /\ ExportStart
  /\ JudgeStart
  /\ evalResults \in ExportableSets
  /\ IF Len(evalResults) = 0 THEN EvalStart ELSE EvalAfterRun
  /\ flaggedIndex = 0
  /\ editedCorrection = IF HasCurrentFlagged(evalResults, 0)
                        THEN CorrectionBox(evalResults, 0) ELSE <<>>

NextExport == ExportCorrections

SpecExport == InitExport /\ [][NextExport]_vars

\* RAFT preparation: the Training section is opened on a reviewed store
ReviewStatuses == { "pending", "accepted", "edited", "rejected" }

ReviewedStores(n) ==
  { [ k \in 1..Len(data) |-> [ initializeWithStatus(data)[k] EXCEPT !._status = st[k] ] ] :
      data \in { d \in UploadFiles \cup SeqsUpTo(UploadItems, n) : Len(d) <= n },
      st \in [1..n -> ReviewStatuses] }

InitRaft ==
  /\ csvText = <<>>
  /\ lastOp = "init"
  /\ JobStart
  /\ IoStart
  /\ CorrStart
  /\ currentIndex = 0
  /\ editMode = FALSE
  /\ editedAnswer = <<>>
  /\ acceptAllDialog = <<>>
  /\ \E n \in 1..Min(MaxDistractorsUI, MaxRaftSize) :
       /\ raftConfig = [ numDistractors |-> n ]
       /\ trainingData \in ReviewedStores(MaxRaftSize - n)
  /\ importedData = trainingData
  /\ weaviateReady \in BOOLEAN
  /\ raftPc = "idle"
  /\ raftItems = <<>>
  /\ raftI = 0
  /\ prepared = <<>>
  /\ raftPreparedData = <<>>
  /\ LaterStart

NextRaft ==
  \/ StartPrepareRaft
  \/ PrepareItem
  \/ FinishPrepareRaft
  \/ RemountTraining

SpecRaft == InitRaft /\ [][NextRaft]_vars

\* Reviewing: the Data Review section is opened on a store whose records
\* are in any status (a resumed session, or a file that carries statuses)
InitReview ==
  /\ csvText = <<>>
  /\ lastOp = "init"
  /\ JobStart
  /\ IoStart
  /\ trainingData \in ReviewedStores(MaxReviewRecords)
  /\ importedData = trainingData
  /\ currentIndex = 0
  /\ editMode = FALSE
  /\ editedAnswer = <<>>
  /\ acceptAllDialog = <<>>
  /\ CorrStart
  /\ RaftStart
  /\ LaterStart

NextReview ==
  \/ HandleAccept
  \/ HandleReject
  \/ HandleToggleEdit
  \/ NavPrevious
  \/ NavNext

SpecReview == InitReview /\ [][NextReview]_vars

\* Importing: files whose records carry their own _id or _status, .jsonl
\* files with lines that do not parse, and .csv files with short rows
OwnId == << "own", 1 >>

ImportItems ==
  UploadItems
  \cup [ question : { <<"x">> }, answer : { <<"x">> }, _id : { OwnId } ]
  \cup [ question : { <<"x">> }, answer : { <<"x">> }, _status : { "accepted" } ]
  \cup [ question : { <<"x">> }, answer : { <<"x">> }, _id : { OwnId }, _status : { "accepted" } ]

ImportFiles == SeqsUpTo(ImportItems, MaxReviewRecords)

JsonlFiles ==
  SeqsUpTo({ InvalidLine } \cup { ParsedLine(item) : item \in ImportItems }, MaxReviewRecords)
    \ { <<>> }

ImportCsvTexts ==
  { << "q", COMMA, "a", LF, "x", COMMA, "x", LF, "x" >>,
    << "q", COMMA, "a", LF, COMMA, "x" >> }

InitImport ==
  /\ csvText \in ImportCsvTexts
  /\ lastOp = "init"
  /\ JobStart
  /\ IoStart
  /\ ReviewStart
  /\ CorrStart
  /\ RaftStart
  /\ LaterStart

NextImport ==
  \/ \E lines \in JsonlFiles : HandleFileUploadJsonl(lines)
  \/ \E data \in ImportFiles : HandleFileUploadJson(data)
  \/ HandleFileUploadCsv
  \/ HandleAccept
  \/ HandleReject
  \/ HandleToggleEdit
  \/ NavPrevious
  \/ NavNext
  \/ HandleAcceptAll
  \/ AcceptAllConfirm
  \/ AcceptAllCancel

SpecImport == InitImport /\ [][NextImport]_vars

\* The evaluation batch, from the freshly started application
EvalFiles == { file \in ResponseFiles(MaxResponses) : \A k \in 1..Len(file) : ~file[k] }

EvalReplies == { << "3", LF, WORD >>, << RATING, COLON, "4" >> }

EvalFailures == { << "timeout" >> }

ThresholdInputs == { 0, 50, 100 }

InitEval ==
  /\ csvText = <<>>
  /\ lastOp = "init"
  /\ JobStart
  /\ IoStart
  /\ ReviewStart
  /\ CorrStart
  /\ RaftStart
  /\ LaterStart

NextEval ==
  \/ \E file \in EvalFiles : HandleLoadResponses(file)
  \/ \E typed \in ThresholdInputs : SetScoreThreshold(typed)
  \/ \E configured \in BOOLEAN : SetJudgeConfig(configured)
  \/ RunEvaluation
  \/ \E judgeOutput \in EvalReplies : JudgeReplies(judgeOutput)
  \/ \E message \in EvalFailures : JudgeFails(message)
  \/ DelayElapsed

SpecEval == InitEval /\ [][NextEval]_vars

\* The evaluation batch with a judge that may also answer without any
\* output text:  data.output?.response || data.output?.text || data.output || ''
NoOutputText == << >>

JudgeOutputs == EvalReplies \cup { NoOutputText }

NextEvalOutput ==
  \/ \E file \in EvalFiles : HandleLoadResponses(file)
  \/ \E configured \in BOOLEAN : SetJudgeConfig(configured)
  \/ RunEvaluation
  \/ \E judgeOutput \in JudgeOutputs : JudgeReplies(judgeOutput)
  \/ \E message \in EvalFailures : JudgeFails(message)
  \/ DelayElapsed

SpecEvalOutput == InitEval /\ [][NextEvalOutput]_vars

\* Scoring and flagging: one response, every rating, a range of thresholds
ScoreFiles == { << FALSE >> }

ScoreReplies == { << d >> : d \in RatingDigits }

ScoreThresholdInputs == { 0, 30, 50, 100 }

NextScore ==
  \/ \E file \in ScoreFiles : HandleLoadResponses(file)
  \/ \E typed \in ScoreThresholdInputs : SetScoreThreshold(typed)
  \/ \E configured \in BOOLEAN : SetJudgeConfig(configured)
  \/ RunEvaluation
  \/ \E judgeOutput \in ScoreReplies : JudgeReplies(judgeOutput)
  \/ DelayElapsed

SpecScore == InitEval /\ [][NextScore]_vars

\* The judge parser: any reply within the bounds is parsed
JudgeAtoms == { "2", "4", "7", RATING, COLON, BLANK, LF, WORD, PAD }

JudgeTexts == SeqsUpTo(JudgeAtoms, MaxJudgeLen)

InitJudge ==
  /\ csvText = <<>>
  /\ lastOp = "init"
  /\ JobStart
  /\ IoStart
  /\ ReviewStart
  /\ CorrStart
  /\ RaftStart
  /\ SnapStart
  /\ ExportStart
  /\ EvalStart
  /\ judgeText \in JudgeTexts
  /\ judgeParsed = <<>>

NextJudge == ParseJudge

SpecJudge == InitJudge /\ [][NextJudge]_vars

----------------------------------------------------------------------------
(* Claims *)

\* Every sample pushed so far or published
RaftSamples ==
  { prepared[k] : k \in 1..Len(prepared) } \cup
  { raftPreparedData[k] : k \in 1..Len(raftPreparedData) }

\* C1: every record the CSV import puts into the store has a non-empty
\* question and a non-empty answer.
C1_ImportedRecordsNonEmpty ==
  \A k \in 1..Len(trainingData) :
    trainingData[k].question # <<>> /\ trainingData[k].answer # <<>>

\* C2: a record whose status is edited has an answer that differs from the
\* answer it had when it was imported.
C2_EditedAnswerDiffers ==
  \A k \in 1..Len(trainingData) :
    trainingData[k]._status = "edited"
      => trainingData[k].answer # importedData[k].answer

\* C3: leaving edit mode through the Edit toggle sets the current record's
\* answer to the edited text and its status to edited.
C3_SaveEditForcesEdited ==
  lastOp = "saveEdit" =>
    /\ trainingData[currentIndex + 1].answer = editedAnswer
    /\ trainingData[currentIndex + 1]._status = "edited"

\* C4: after acceptAsIs or reject the cursor is a valid index into the
\* queue of flagged/corrected results whenever that queue is non-empty.
C4_CursorInsideQueue ==
  (lastOp \in { "acceptAsIs", "rejectItem" } /\ Len(flaggedItems(evalResults)) > 0)
    => (0 <= flaggedIndex /\ flaggedIndex < Len(flaggedItems(evalResults)))

\* C5: in every sample prepared with the oracle included, the cited document
\* number is the 1-based index of the one document with is_oracle = true, and
\* that document is rendered under the same number.
C5_CitationIsOraclePosition ==
  \A s \in RaftSamples :
    s._oracle_included =>
      /\ s.answer.kind = "cite"
      /\ s.answer.document \in 1..Len(s.documents)
      /\ \A j \in 1..Len(s.documents) :
           s.documents[j].is_oracle <=> j = s.answer.document
      /\ s.documents[s.answer.document].id = << "oracle", s._id >>
      /\ s.context[s.answer.document].number = s.answer.document
      /\ s.context[s.answer.document].content = s.documents[s.answer.document].content

C5_Witness ==
  \E k \in 1..Len(raftPreparedData) :
    /\ raftPreparedData[k]._oracle_included
    /\ Len(raftPreparedData[k].documents) >= 3
    /\ raftPreparedData[k].answer.document >= 2

\* C6: in every sample prepared with the oracle excluded no document is the
\* oracle and the answer is the refusal text; with no distractors the sample
\* has zero documents, and the run still publishes one sample per item.
C6_ExcludedHasNoOracle ==
  /\ \A s \in RaftSamples :
       ~s._oracle_included =>
         /\ \A j \in 1..Len(s.documents) : ~s.documents[j].is_oracle
         /\ s.answer = RefusalAnswer
         /\ s.distractors = <<>> => (s.documents = <<>> /\ s.context = <<>>)
  /\ raftPc = "done" => Len(raftPreparedData) = Len(raftItems)

C6_Witness ==
  /\ raftPc = "done"
  /\ \E k \in 1..Len(raftPreparedData) :
       /\ ~raftPreparedData[k]._oracle_included
       /\ raftPreparedData[k].documents = <<>>
       /\ raftPreparedData[k].answer.kind = "refusal"

\* C7: with N configured distractors, r usable remote documents (none when
\* the search is skipped or fails) and S siblings, the distractors are the
\* r remote documents followed by min(N - r, S) fallback documents when
\* r < N, and exactly the first N remote documents otherwise; never more
\* than N, and no item of the run is left without a sample.
C7_RemoteToppedUpByFallback ==
  /\ \A s \in RaftSamples :
       LET n == raftConfig.numDistractors
           r == s.remoteUsed
           d == s.distractors
           siblings == Len(raftItems) - 1
       IN  /\ Len(d) <= n
           /\ r <= Len(d)
           /\ ~weaviateReady => r = 0
           /\ \A j \in 1..r : /\ d[j].id[1] = "wv"
                              /\ d[j].id[2] = ToString(j)
                              /\ ~d[j].is_oracle
           /\ IF r < n
              THEN /\ Len(d) = r + Min(n - r, siblings)
                   /\ \A j \in (r + 1)..Len(d) : d[j].id[1] = "distractor"
              ELSE Len(d) = n
  /\ raftPc = "done" => Len(raftPreparedData) = Len(trainingData)
                          - Cardinality({ k \in 1..Len(trainingData) :
                                            trainingData[k]._status \in { "pending", "rejected" } })

C7_Witness ==
  \E k \in 1..Len(raftPreparedData) :
    LET s == raftPreparedData[k]
    IN  /\ s.remoteUsed >= 1
        /\ s.remoteUsed < raftConfig.numDistractors
        /\ Len(s.distractors) > s.remoteUsed

\* C8: the fallback source returns exactly min(limit, number of siblings)
\* documents, each built from a record other than the current one and each
\* tagged is_oracle = false.
C8_FallbackFromSiblings ==
  \A k \in 1..Len(prepared) :
    LET s == prepared[k]
        limit == raftConfig.numDistractors - s.remoteUsed
        fb == SubSeq(s.distractors, s.remoteUsed + 1, Len(s.distractors))
    IN  limit > 0 =>
          /\ Len(fb) = Min(limit, Len(raftItems) - 1)
          /\ \A j \in 1..Len(fb) :
               /\ fb[j].src \in 1..Len(raftItems)
               /\ fb[j].src # k
               /\ fb[j].is_oracle = FALSE
               /\ fb[j].id = << "distractor", raftItems[fb[j].src]._id >>

C8_Witness ==
  \E k \in 1..Len(prepared) :
    LET s == prepared[k]
        limit == raftConfig.numDistractors - s.remoteUsed
    IN  /\ limit >= 2
        /\ Len(s.distractors) - s.remoteUsed = 1
        /\ Len(raftItems) = 2

\* C9: a sample has 1 + d documents when the oracle is included and d when
\* it is excluded, d being the size of its distractor set, and the documents
\* are rendered under the numbers 1..length.
C9_DocumentCountAndNumbering ==
  \A s \in RaftSamples :
    /\ Len(s.documents) = (IF s._oracle_included THEN 1 ELSE 0) + Len(s.distractors)
    /\ Len(s.context) = Len(s.documents)
    /\ \A j \in 1..Len(s.context) : s.context[j].number = j

C9_Witness ==
  /\ \E k \in 1..Len(raftPreparedData) :
       /\ raftPreparedData[k]._oracle_included
       /\ Len(raftPreparedData[k].distractors) = 2
       /\ Len(raftPreparedData[k].context) = 3
  /\ \E k \in 1..Len(raftPreparedData) :
       /\ ~raftPreparedData[k]._oracle_included
       /\ Len(raftPreparedData[k].context) = 2

\* C10: preparation yields exactly one sample for each accepted or edited
\* record, in stored order, none for a pending or rejected record, and no
\* fallback distractor is built from a pending or rejected record.
ReviewedIn(item) == item._status \in { "accepted", "edited" }

C10_OneSamplePerAcceptedRecord ==
  LET kept == SelectSeq(trainingData, ReviewedIn)
      Ids(seq) == [ k \in 1..Len(seq) |-> seq[k]._id ]
  IN  /\ raftPc \in { "running", "done" } =>
           /\ Len(prepared) <= Len(kept)
           /\ Ids(prepared) = SubSeq(Ids(kept), 1, Len(prepared))
      /\ raftPc = "done" => Ids(raftPreparedData) = Ids(kept)
      /\ \A s \in RaftSamples :
           \A j \in (s.remoteUsed + 1)..Len(s.distractors) :
             \E k \in 1..Len(kept) : s.distractors[j].id = << "distractor", kept[k]._id >>

C10_Witness ==
  /\ raftPc = "done"
  /\ Len(trainingData) = 3
  /\ trainingData[2]._status \in { "pending", "rejected" }
  /\ Len(raftPreparedData) = 2
  /\ \E k \in 1..2 : Len(raftPreparedData[k].distractors) > raftPreparedData[k].remoteUsed

\* The ladder of the parser, stated over positions of the reply
StandaloneAt(text, i) ==
  /\ text[i] \in RatingDigits
  /\ \A j \in 1..(i - 1) : IsSpace(text[j])
  /\ \A j \in (i + 1)..Len(text) :
       (\A k \in (i + 1)..j : text[k] # LF) => IsSpace(text[j])

AfterFirstLine(text, i) ==
  LET breaks == { k \in (i + 1)..Len(text) : text[k] = LF }
  IN  IF breaks = {} THEN <<>>
      ELSE SubSeq(text, (CHOOSE k \in breaks : \A m \in breaks : k <= m) + 1, Len(text))

RatingRunAt(text, i, e) ==
  /\ text[i] = RATING
  /\ e >= i + 2
  /\ text[e] \in RatingDigits
  /\ \A j \in (i + 1)..(e - 1) : IsSeparator(text[j])

RatingRuns(text) ==
  { ie \in (1..Len(text)) \X (1..Len(text)) : RatingRunAt(text, ie[1], ie[2]) }

RECURSIVE CharsBefore(_, _)
CharsBefore(text, k) ==
  IF k <= 1 THEN 0 ELSE CharsBefore(text, k - 1) + Width(text[k - 1])

EarlyDigits(text) ==
  { k \in 1..Len(text) : text[k] \in RatingDigits /\ CharsBefore(text, k) < FirstChars }

LadderResult(text) ==
  IF \E i \in 1..Len(text) : StandaloneAt(text, i)
  THEN LET i == CHOOSE i \in 1..Len(text) : StandaloneAt(text, i)
       IN  [ score |-> DigitValue(text[i]), explanation |-> Trim(AfterFirstLine(text, i)) ]
  ELSE IF RatingRuns(text) # {}
  THEN LET ie == CHOOSE ie \in RatingRuns(text) : \A o \in RatingRuns(text) : ie[1] <= o[1]
       IN  [ score |-> DigitValue(text[ie[2]]),
             explanation |-> Trim(SubSeq(text, ie[2] + 1, Len(text))) ]
  ELSE IF EarlyDigits(text) # {}
  THEN LET k == CHOOSE k \in EarlyDigits(text) : \A o \in EarlyDigits(text) : k <= o
       IN  [ score |-> DigitValue(text[k]), explanation |-> text ]
  ELSE [ score |-> 3, explanation |-> text ]

\* The same ladder with step 2 read as written: 'rating', a colon, optional
\* whitespace, the digit
ColonRuns(text) ==
  { ie \in RatingRuns(text) : text[ie[1] + 1] = COLON
                               /\ \A j \in (ie[1] + 2)..(ie[2] - 1) : IsSpace(text[j]) }

ColonLadderScore(text) ==
  IF \E i \in 1..Len(text) : StandaloneAt(text, i)
  THEN DigitValue(text[CHOOSE i \in 1..Len(text) : StandaloneAt(text, i)])
  ELSE IF ColonRuns(text) # {}
  THEN DigitValue(text[(CHOOSE ie \in ColonRuns(text) :
                          \A o \in ColonRuns(text) : ie[1] <= o[1])[2]])
  ELSE IF EarlyDigits(text) # {}
  THEN DigitValue(text[CHOOSE k \in EarlyDigits(text) : \A o \in EarlyDigits(text) : k <= o])
  ELSE 3

\* "4\nGood answer", "Some preamble. Rating: 2. Needs work.", "3",
\* "no numeric signal here"
LiteralReplies ==
  << << "4", LF, WORD, BLANK, WORD >>,
     << WORD, BLANK, WORD, ".", BLANK, RATING, COLON, BLANK, "2", ".", BLANK, WORD,
        BLANK, WORD, "." >>,
     << "3" >>,
     << WORD, BLANK, WORD, BLANK, WORD, BLANK, WORD >> >>

SameResponse(result, response) ==
  /\ result._id = response._id
  /\ result.question = response.question
  /\ result.expected_answer = response.expected_answer
  /\ result.model_response = response.model_response

\* C11: the batch runs the judge calls one at a time and in input order: at
\* most one call is in flight, the progress counter of a running batch never
\* decreases, and on completion result i is the result of input i, for
\* every input.
C11_SequentialInOrder ==
  /\ [](judgeInFlight <= 1)
  /\ [][evalProgress.status = "running" => evalProgress'.current >= evalProgress.current]_vars
  /\ [](lastOp = "evaluationComplete" =>
          /\ Len(evalResults) = Len(evalClosure.modelResponses)
          /\ \A k \in 1..Len(evalResults) :
               SameResponse(evalResults[k], evalClosure.modelResponses[k]))

C11_Witness ==
  /\ lastOp = "evaluationComplete"
  /\ Len(evalResults) = 2
  /\ evalResults[1]._id # evalResults[2]._id

\* Every result pushed so far or published
BatchResults ==
  { runResults[k] : k \in 1..Len(runResults) } \cup
  { evalResults[k] : k \in 1..Len(evalResults) }

\* C12 (as stated): a result with status error has the failure message as
\* its explanation.
C12_ExplanationIsMessage ==
  \A r \in BatchResults : r._status = "error" => r._evalExplanation \in EvalFailures

\* C12 (amended): a failed judge call records, for its record, a result with
\* status error, raw score 1, normalized score 0 and the explanation
\* "Error: " followed by the failure message; the batch goes on, and on
\* completion every record of the batch has its result.
C12_FailureRecordedBatchContinues ==
  /\ \A r \in BatchResults :
       r._status = "error" =>
         /\ r._rawScore = 1
         /\ r._evalScore = 0
         /\ \E message \in EvalFailures : r._evalExplanation = << "Error: " >> \o message
  /\ lastOp = "judgeFailed" =>
       /\ evalPc = "delay"
       /\ Len(runResults) = evalI + 1
       /\ runResults[evalI + 1]._status = "error"
       /\ SameResponse(runResults[evalI + 1], evalClosure.modelResponses[evalI + 1])
  /\ lastOp = "evaluationComplete" =>
       /\ Len(evalResults) = Len(evalClosure.modelResponses)
       /\ \A k \in 1..Len(evalResults) :
            SameResponse(evalResults[k], evalClosure.modelResponses[k])

C12_Witness ==
  /\ lastOp = "evaluationComplete"
  /\ Len(evalResults) = 2
  /\ evalResults[1]._status = "error"
  /\ evalResults[2]._status # "error"

\* C15: every evaluation result whose status is flagged has a score strictly
\* below the threshold that is currently set.
C15_FlaggedBelowActiveThreshold ==
  \A k \in 1..Len(evalResults) :
    evalResults[k]._status = "flagged"
      => evalResults[k]._evalScore < evalConfig.scoreThreshold

\* The results computed with the threshold of the current or last batch
ScoredWithClosure ==
  { runResults[k] : k \in 1..Len(runResults) } \cup
  (IF lastOp = "evaluationComplete"
   THEN { evalResults[k] : k \in 1..Len(evalResults) } ELSE {})

\* C14: for every raw score r in 1..5 and threshold t the normalized score
\* is (r - 1) / 4 (0 for 1, 1 for 5) and the status is flagged exactly when
\* (r - 1) / 4 < t, passed otherwise; with t = 0.7, r <= 3 is flagged and
\* r >= 4 is passed.  (Scores and thresholds in hundredths.)
C14_NormalizeAndFlag ==
  \A r \in ScoredWithClosure :
    r._status # "error" =>
      /\ r._rawScore \in 1..5
      /\ 4 * r._evalScore = 100 * (r._rawScore - 1)
      /\ r._rawScore = 1 => r._evalScore = 0
      /\ r._rawScore = 5 => r._evalScore = 100
      /\ r._status \in { "flagged", "passed" }
      /\ r._status = "flagged" <=> 100 * (r._rawScore - 1) < 4 * evalClosure.scoreThreshold
      /\ evalClosure.scoreThreshold = 70 => (r._status = "flagged" <=> r._rawScore <= 3)

C14_Witness ==
  /\ lastOp = "evaluationComplete"
  /\ evalClosure.scoreThreshold = 50
  /\ Len(evalResults) = 1
  /\ evalResults[1]._rawScore = 3
  /\ evalResults[1]._evalScore = 50
  /\ evalResults[1]._status = "passed"

\* C16: saveCorrection with an empty or whitespace-only text changes
\* nothing (results, cursor and box stay); with any other text it sets, on
\* the result under the cursor, the corrected answer to that text and the
\* status to corrected.
C16_SaveCorrection ==
  [][lastOp' = "saveCorrection" =>
       IF Trim(editedCorrection) = <<>>
       THEN UNCHANGED corrVars
       ELSE HasCurrentFlagged(evalResults, flaggedIndex) =>
              LET pos == QueuePositions(evalResults, 1)[flaggedIndex + 1]
              IN  /\ Len(evalResults') = Len(evalResults)
                  /\ evalResults'[pos]._correctedAnswer = editedCorrection
                  /\ evalResults'[pos]._status = "corrected"]_vars

C16_Witness ==
  /\ lastOp = "saveCorrection"
  /\ \E k \in 1..Len(evalResults) :
       /\ evalResults[k]._status = "corrected"
       /\ evalResults[k]._correctedAnswer = <<"c">>

\* C17: every result whose status is corrected has a non-empty corrected
\* answer, and the corrections export gives, for each corrected result, that
\* corrected answer as the answer of the exported pair.
C17_CorrectedHasAnswerAndExportsIt ==
  /\ \A k \in 1..Len(evalResults) :
       evalResults[k]._status = "corrected" => Trim(evalResults[k]._correctedAnswer) # <<>>
  /\ LET corrected == CorrectedFrom(evalResults, 1)
         out == exportCorrections(evalResults)
     IN  /\ Len(out.pairs) = Len(corrected)
         /\ \A j \in 1..Len(corrected) :
              /\ out.pairs[j].assistant = corrected[j]._correctedAnswer
              /\ out.pairs[j].assistant # <<>>

C17_Witness ==
  /\ \E k \in 1..Len(evalResults) : evalResults[k]._status = "corrected"
  /\ exportCorrections(evalResults).downloaded
  /\ exportCorrections(evalResults).pairs[1].assistant = <<"c">>

\* Positions of the corrected results, and the rank of one among them
CorrectedPositions == { k \in 1..Len(evalResults) : evalResults[k]._status = "corrected" }

CorrectedRank(k) == Cardinality({ m \in CorrectedPositions : m <= k })

\* C18: exportCorrections exports exactly the corrected results, in stored
\* order, each as its question / corrected-answer pair, and exports nothing
\* and raises the alert when no result is corrected.
C18_ExportsExactlyCorrected ==
  lastOp = "exportCorrections" =>
    /\ Len(correctionsFile.pairs) = Cardinality(CorrectedPositions)
    /\ \A k \in CorrectedPositions :
         correctionsFile.pairs[CorrectedRank(k)] =
           [ user |-> evalResults[k].question, assistant |-> evalResults[k]._correctedAnswer ]
    /\ correctionsFile.downloaded <=> CorrectedPositions # {}
    /\ correctionsFile.alerted <=> CorrectedPositions = {}

C18_Witness ==
  /\ lastOp = "exportCorrections"
  /\ Len(evalResults) = 3
  /\ evalResults[1]._status = "corrected"
  /\ evalResults[2]._status = "flagged"
  /\ evalResults[3]._status = "corrected"
  /\ evalResults[1]._correctedAnswer # evalResults[3]._correctedAnswer
  /\ Len(correctionsFile.pairs) = 2

\* C19: a result that is rejected stays rejected through every action of
\* the correction loop, and is never among the results the export takes.
C19_RejectedStaysRejected ==
  /\ [][\A k \in 1..Len(evalResults) :
          evalResults[k]._status = "rejected" =>
            /\ k <= Len(evalResults')
            /\ evalResults'[k]._status = "rejected"]_vars
  /\ [](\A k \in 1..Len(evalResults) :
          evalResults[k]._status = "rejected" =>
            \A j \in 1..Len(CorrectedFrom(evalResults, 1)) :
              CorrectedFrom(evalResults, 1)[j] # evalResults[k])

C19_Witness ==
  /\ lastOp = "saveCorrection"
  /\ \E k, m \in 1..Len(evalResults) :
       /\ evalResults[k]._status = "rejected"
       /\ evalResults[m]._status = "corrected"

\* C20: restoring a snapshot that was saved outside edit mode gives the
\* record sequence (ids, questions, answers, statuses, order) and the cursor
\* of the moment of the save, whatever the store and cursor were before the
\* restore.
C20_SnapshotRoundTrip ==
  (lastOp = "resume" /\ ~savedFrom[3]) =>
    /\ trainingData = savedFrom[1]
    /\ currentIndex = savedFrom[2]

C20_Witness ==
  /\ lastOp = "resume"
  /\ ~savedFrom[3]
  /\ Len(trainingData) = 2
  /\ currentIndex = 1
  /\ trainingData[1]._status = "accepted"
  /\ trainingData[2]._status = "pending"
  /\ trainingData[1].answer # trainingData[2].answer

\* The store after one step differs from the store before it at most in the
\* current record, and there at most in the status
OnlyCurrentStatusChanges ==
  /\ Len(trainingData') = Len(trainingData)
  /\ \A k \in 1..Len(trainingData) :
       /\ trainingData'[k]._id = trainingData[k]._id
       /\ trainingData'[k].answer = trainingData[k].answer
       /\ k # currentIndex + 1 => trainingData'[k]._status = trainingData[k]._status

\* C21: accept and reject are enabled on the current record whatever its
\* status; outside edit mode accept sets the current record's status to
\* accepted and reject sets it to rejected, and no other record's status,
\* answer or id changes.
C21_AcceptRejectAnyStatus ==
  /\ [](HasCurrent => ENABLED HandleAccept /\ ENABLED HandleReject)
  /\ [][ (HandleAccept /\ ~editMode) =>
           /\ trainingData'[currentIndex + 1]._status = "accepted"
           /\ OnlyCurrentStatusChanges ]_vars
  /\ [][ (HandleReject /\ ~editMode) =>
           /\ trainingData'[currentIndex + 1]._status = "rejected"
           /\ OnlyCurrentStatusChanges ]_vars

\* A record that was rejected has been accepted, and one that was accepted
\* has been rejected, next to a record that kept its status
C21_Witness ==
  /\ Len(trainingData) = 2
  /\ importedData[1]._status = "rejected" /\ trainingData[1]._status = "accepted"
  /\ importedData[2]._status = "edited" /\ trainingData[2]._status = "edited"
  /\ lastOp = "accept"

\* The records the lines of the uploaded file hold, invalid lines left out
IncomingRecords ==
  LET kept == { k \in 1..Len(jsonFile) : jsonFile[k].ok }
      Rank(k) == Cardinality({ j \in kept : j <= k })
  IN  [ n \in 1..Cardinality(kept) |->
          jsonFile[CHOOSE k \in kept : Rank(k) = n].value ]

\* C22: an import keeps every id an incoming record has, gives an id to
\* every record without one and status pending to every record without a
\* status; the ids in the store are pairwise distinct; accept, reject, edit,
\* accept all and navigation never change a record's id.
C22_IdsAssignedDistinctImmutable ==
  /\ [](lastOp \in { "uploadJson", "uploadJsonl" } =>
          /\ Len(trainingData) = Len(IncomingRecords)
          /\ \A k \in 1..Len(trainingData) :
               /\ "_id" \in DOMAIN IncomingRecords[k] =>
                    trainingData[k]._id = IncomingRecords[k]._id
               /\ "_id" \notin DOMAIN IncomingRecords[k] => trainingData[k]._id # <<>>
               /\ "_status" \notin DOMAIN IncomingRecords[k] =>
                    trainingData[k]._status = "pending")
  /\ [](\A j, k \in 1..Len(trainingData) :
          j # k => trainingData[j]._id # trainingData[k]._id)
  /\ [][ lastOp' \in { "accept", "reject", "enterEdit", "saveEdit", "acceptAll",
                       "previous", "next" } =>
           /\ Len(trainingData') = Len(trainingData)
           /\ \A k \in 1..Len(trainingData) : trainingData'[k]._id = trainingData[k]._id ]_vars

\* C25: a malformed row never aborts an import.  After a .jsonl upload the
\* store holds the records of the lines that parse, whether or not other
\* lines fail; after a .csv upload it holds one record for every data row
\* with at least 2 non-empty trimmed fields and none for the other rows.
C25_MalformedRowsSkipped ==
  /\ lastOp \in { "uploadJsonl", "uploadAlert" } =>
       trainingData = initializeWithStatus(IncomingRecords)
  /\ lastOp = "uploadCsv" =>
       LET rows == parseCSV(csvText)
           wellFormed == { i \in 2..Len(rows) :
                             Cardinality({ k \in 1..Len(rows[i]) : rows[i][k] # <<>> }) >= 2 }
       IN  Len(trainingData) = Cardinality(wellFormed)

\* The rows of the table with every field trimmed
TrimmedRows(table) ==
  [ i \in 1..Len(table) |-> [ k \in 1..Len(table[i]) |-> Trim(table[i][k]) ] ]

\* The positions of the rows that keep a non-empty field after trimming
FilledRows(table) ==
  { i \in 1..Len(table) : \E k \in 1..Len(table[i]) : Trim(table[i][k]) # <<>> }

\* C23 as stated: parseCSV returns the rows of the encoded table, each field
\* trimmed, for either line ending.
C23_ParsesEncodedTable ==
  csvRows # <<>> => csvRows[1] = TrimmedRows(csvTable.rows)

\* C23 amended: parseCSV returns, in order, the rows of the encoded table
\* that keep a non-empty field after trimming, each field trimmed; a comma,
\* a newline or a doubled quote inside a quoted field stays in its field.
C23_ParsesFilledRows ==
  csvRows # <<>> =>
    LET trimmed == TrimmedRows(csvTable.rows)
        kept == FilledRows(csvTable.rows)
        Rank(i) == Cardinality({ j \in kept : j <= i })
    IN  /\ Len(csvRows[1]) = Cardinality(kept)
        /\ \A i \in kept : csvRows[1][Rank(i)] = trimmed[i]

\* A table with a comma, a quote and a newline inside fields and with a row
\* of empty fields has been parsed from a file with \r\n line endings
C23_Witness ==
  /\ csvRows # <<>>
  /\ csvTable.eol = << CR, LF >>
  /\ csvTable.rows = << << << "x", COMMA, "x" >> >>, << <<>> >>, << << "x", QUOTE, LF >> >> >>
  /\ csvRows[1] = << << << "x", COMMA, "x" >> >>, << << "x", QUOTE >> >> >>

\* The columns of the uploaded table whose lower-cased header is this name
ColumnsNamed(name) ==
  { k \in 1..Len(csvTable.rows[1]) :
      [ j \in 1..Len(csvTable.rows[1][k]) |-> LowerAtom(csvTable.rows[1][k][j]) ] = << name >> }

\* The data row's cell under this name: the last column of that name
CellUnder(name) ==
  IF ColumnsNamed(name) = {} THEN <<>>
  ELSE csvTable.rows[2][CHOOSE k \in ColumnsNamed(name) : \A j \in ColumnsNamed(name) : j <= k]

QuestionOrder == << "question", "prompt", "input", "q" >>
AnswerOrder == << "answer", "response", "output", "a" >>

\* The value the statement of C24 allows for a field: a cell under the first
\* name of the order that is a header, else the cell of the given column
AllowedByHeader(order, column) ==
  LET present == { n \in 1..Len(order) : ColumnsNamed(order[n]) # {} }
  IN  IF present = {} THEN { csvTable.rows[2][column] }
      ELSE { csvTable.rows[2][k] :
               k \in ColumnsNamed(order[CHOOSE n \in present : \A m \in present : n <= m]) }

\* The cell under the first name of the order whose cell is not empty, else
\* the cell of the given column
FirstFilled(order, column) ==
  LET filled == { n \in 1..Len(order) : CellUnder(order[n]) # <<>> }
  IN  IF filled = {} THEN csvTable.rows[2][column]
      ELSE CellUnder(order[CHOOSE n \in filled : \A m \in filled : n <= m])

WithStatus(statuses) ==
  { k \in 1..Len(trainingData) : trainingData[k]._status \in statuses }

\* C26: in every state the statistics count the records of each status,
\* reviewed is accepted + edited + rejected, and the reviewed percentage is
\* reviewed / total for a non-empty store and exactly 0 for the empty store.
C26_StatisticsConsistent ==
  LET st == stats(trainingData)
      width == ProgressWidth(st)
  IN  /\ st.total = Len(trainingData)
      /\ st.accepted = Cardinality(WithStatus({ "accepted" }))
      /\ st.edited = Cardinality(WithStatus({ "edited" }))
      /\ st.rejected = Cardinality(WithStatus({ "rejected" }))
      /\ st.pending = Cardinality(WithStatus({ "pending" }))
      /\ st.reviewed = Cardinality(WithStatus({ "accepted", "edited", "rejected" }))
      /\ st.reviewed = st.accepted + st.edited + st.rejected
      /\ width.den > 0
      /\ IF Len(trainingData) > 0
         THEN width.num * Len(trainingData) = 100 * st.reviewed * width.den
         ELSE width.num = 0

\* After a reject, one record of two is edited and the other rejected: both
\* are counted as reviewed
C26_Witness ==
  /\ lastOp = "reject"
  /\ stats(trainingData).edited = 1
  /\ stats(trainingData).rejected = 1
  /\ stats(trainingData).reviewed = 2
  /\ ProgressWidth(stats(trainingData)) = [ num |-> 200, den |-> 2 ]

\* The statistics of the empty store
C26_WitnessEmpty ==
  /\ Len(trainingData) = 0
  /\ ProgressWidth(stats(trainingData)).num = 0

\* C27: the training-data export holds exactly the records that are accepted
\* or edited when it is made, in stored order and without the _id and
\* _status fields; when no record is accepted or edited nothing is exported.
C27_ExportsAcceptedAndEdited ==
  lastOp = "exportAsJsonl" =>
    LET kept == WithStatus({ "accepted", "edited" })
        Rank(k) == Cardinality({ j \in kept : j <= k })
    IN  IF kept = {}
        THEN ~trainingFile.downloaded /\ trainingFile.lines = <<>>
        ELSE /\ trainingFile.downloaded
             /\ Len(trainingFile.lines) = Cardinality(kept)
             /\ \A k \in kept :
                  /\ DOMAIN trainingFile.lines[Rank(k)] = { "question", "answer" }
                  /\ trainingFile.lines[Rank(k)].question = trainingData[k].question
                  /\ trainingFile.lines[Rank(k)].answer = trainingData[k].answer

\* A store of a rejected record and an edited one was exported: the file
\* holds the edited record alone
C27_Witness ==
  /\ lastOp = "exportAsJsonl"
  /\ Len(trainingData) = 2
  /\ trainingData[1]._status = "rejected"
  /\ trainingData[2]._status = "edited"
  /\ trainingFile.lines = << [ question |-> << "x" >>, answer |-> << "y" >> ] >>

\* C28: the step that applies a confirmed Accept All turns exactly the
\* records that are pending at that moment into accepted and leaves the
\* status of every other record as it is, whatever was done while the
\* confirmation dialog was open.
C28_AcceptAllOnlyPending ==
  [][ AcceptAllConfirm =>
        /\ Len(trainingData') = Len(trainingData)
        /\ \A k \in 1..Len(trainingData) :
             trainingData'[k]._status =
               IF trainingData[k]._status = "pending" THEN "accepted"
               ELSE trainingData[k]._status ]_vars

\* An evaluation batch is between two records: one was settled, another is
\* still to be sent to the judge
BetweenRecords ==
  evalPc = "delay" /\ evalI + 1 < Len(evalClosure.modelResponses)

\* C29: a running batch can be cancelled between records: whenever it is
\* between two records, the program has a step that ends the batch there,
\* processing no further record and returning the results completed so far.
C29_CancellableBetweenRecords ==
  BetweenRecords =>
    ENABLED (/\ NextEval
             /\ evalPc' = "idle"
             /\ evalProgress'.status # "running"
             /\ evalResults' = runResults)

\* C30: accepting the current record in edit mode leaves it with the text of
\* the edit box as its answer and with status edited.
C30_AcceptInEditModeKeepsText ==
  [][ (HandleAccept /\ editMode) =>
        /\ trainingData'[currentIndex + 1].answer = editedAnswer
        /\ trainingData'[currentIndex + 1]._status = "edited" ]_vars

\* C31: a snapshot saved while the current record is in edit mode holds the
\* text of the edit box as that record's answer.
C31_SnapshotHoldsPendingEdit ==
  (lastOp = "save" /\ editMode) =>
    parseSaveData(snapshotFile[1]).data[currentIndex + 1].answer = editedAnswer

\* The position in evalResults of the result under the cursor
CursorPosition == QueuePositions(evalResults, 1)[flaggedIndex + 1]

\* C32: a step of saveCorrection, acceptAsIs or reject that changes the
\* results changes the result under the cursor and leaves the status and the
\* corrected answer of every other result as they are.
C32_OnlyResultUnderCursorChanges ==
  [][ (/\ lastOp' \in { "saveCorrection", "acceptAsIs", "rejectItem" }
       /\ evalResults' # evalResults) =>
        /\ HasCurrentFlagged(evalResults, flaggedIndex)
        /\ Len(evalResults') = Len(evalResults)
        /\ \A k \in 1..Len(evalResults) :
             k # CursorPosition =>
               /\ evalResults'[k]._status = evalResults[k]._status
               /\ evalResults'[k]._correctedAnswer = evalResults[k]._correctedAnswer ]_vars

\* No two evaluation results carry the same _id
DistinctResultIds ==
  \A j, k \in 1..Len(evalResults) : j # k => evalResults[j]._id # evalResults[k]._id

\* C33: after acceptAsIs or reject on the result at a queue position that
\* other results follow, the result under the cursor is the one that
\* immediately followed it in the queue (stated for results with distinct
\* ids, where the step dismisses one result).
C33_NextShownIsNextInQueue ==
  [][ (/\ lastOp' \in { "acceptAsIs", "rejectItem" }
       /\ DistinctResultIds
       /\ HasCurrentFlagged(evalResults, flaggedIndex)
       /\ flaggedIndex < Len(flaggedItems(evalResults)) - 1) =>
        /\ HasCurrentFlagged(evalResults', flaggedIndex')
        /\ QueuePositions(evalResults', 1)[flaggedIndex' + 1] =
             QueuePositions(evalResults, 1)[flaggedIndex + 2] ]_vars

\* C34: while a batch is running none can be started, and when a batch
\* completes the published results are one result for each model response
\* that is loaded then, in order.
C34_ResultsMatchLoadedResponses ==
  /\ evalPc # "idle" => evalProgress.status = "running"
  /\ lastOp = "evaluationComplete" =>
       /\ Len(evalResults) = Len(modelResponses)
       /\ \A k \in 1..Len(evalResults) : SameResponse(evalResults[k], modelResponses[k])

\* C35: a result that the batch records as passed or flagged was scored from
\* a judge reply that had text; a reply without output text is not scored.
C35_ScoredOnlyFromJudgeText ==
  (lastOp = "judgeReplied" /\ runResults[Len(runResults)]._status \in { "passed", "flagged" })
    => judgeText # NoOutputText

\* C36: whenever the store holds records the cursor is a position of the
\* store, and Accept and Reject move the cursor forward by exactly one,
\* except on the last record, where it stays.
CursorInStore ==
  Len(trainingData) > 0 => (0 <= currentIndex /\ currentIndex < Len(trainingData))

AcceptRejectAdvanceByOne ==
  [][ lastOp' \in { "accept", "reject" } =>
        currentIndex' = IF currentIndex < Len(trainingData) - 1
                        THEN currentIndex + 1 ELSE currentIndex ]_vars

LoadOrRestore == { "uploadCsv", "uploadJson", "uploadJsonl", "uploadAlert", "resume" }

OracleContent(k) == QaContent(raftItems[k].question, raftItems[k].answer)

C38_NoDistractorWithOracleContent ==
  \A k \in 1..Len(prepared) :
    /\ \A j \in 1..Len(prepared[k].distractors) :
         prepared[k].distractors[j].content # OracleContent(k)
    /\ Cardinality({ j \in 1..Len(prepared[k].documents) :
                       prepared[k].documents[j].content = OracleContent(k) }) <= 1

\* C39: with training type RAFT and prepared samples, the training data of
\* the submitted job is what the ZIP export would hold: the prepared samples.
SameEntries(a, b) ==
  /\ Len(a) = Len(b)
  /\ \A k \in 1..Len(a) :
       /\ DOMAIN a[k] = DOMAIN b[k]
       /\ \A f \in DOMAIN a[k] : a[k][f] = b[k][f]

C39_SubmitsPreparedSamples ==
  (lastOp = "startTraining" /\ trainingType = "raft" /\ Len(raftPreparedData) > 0) =>
    SameEntries(trainRequest[1].training_data,
                dataToExport(trainingType, raftPreparedData, trainingData))

\* C40: a job shown as IN_QUEUE or IN_PROGRESS has its submission pending or
\* a poll scheduled or under way, and a job shown as COMPLETED or FAILED has
\* none.
CallsOf(id) == { call \in jobCalls : call.job = id }

C40_ActiveJobsArePolled ==
  \A k \in 1..Len(jobHistory) :
    /\ IsActive(jobHistory[k].status) => CallsOf(jobHistory[k].id) # {}
    /\ jobHistory[k].status \in { "COMPLETED", "FAILED" } => CallsOf(jobHistory[k].id) = {}

====
